---- MODULE Spec2Model ----
(***************************************************************************)
(* Model of the financial-intelligence MCP server                          *)
(* (src/mcp-servers/competion-mcp-server/competition-mcp-server.py):       *)
(* the shared HTTP session manager, the request executor with retry and    *)
(* backoff, the tax-id validation, the ratio, health-score and credit      *)
(* computations, the trend analysis and the nine tools: the CUI search,    *)
(* the two data tools, the six analysis tools with the multi-company       *)
(* comparison among them.                                                  *)
(*                                                                         *)
(* Coroutines run on one cooperative event loop: a coroutine is only       *)
(* interleaved with others at an await that suspends.  Every action below  *)
(* is the code between two such suspension points.                         *)
(***************************************************************************)
EXTENDS Integers, Sequences, FiniteSets, TLC

\* ------------------------------------------------------------------ bounds
MaxRetriesArg == 3      \* largest max_retries argument explored
MaxSessions == 2        \* cap on the number of ClientSession objects built
NumCallers == 2         \* coroutines using the session manager directly
MaxOps == 2             \* session-manager calls made by one coroutine
MaxFanout == 3          \* largest comparison whose fetches are explored
MaxEdits == 1           \* fields in which a fetched record departs from a sample
MaxTaxIdDigits == 11    \* longest run of digits in a tax id argument
MaxPeriods == 3         \* longest series of periods given to the trend analysis

\* ------------------------------------------------------- program constants
MAX_RETRIES == 3
RETRY_BACKOFF_FACTOR == 2
CloseGraceCs == 25      \* asyncio.sleep(0.25), in hundredths of a second
MinCompare == 2         \* len(tax_ids) < 2
MaxCompare == 10        \* len(tax_ids) > 10
MinTaxIdLen == 2        \* len(cleaned) < 2
MaxTaxIdLen == 10       \* len(cleaned) > 10

None == 0               \* self._session is None / no handle
NoneValue == "None"     \* the Python value None as a return value

\* ---------------------------------------------------------------- helpers
RECURSIVE Pow(_, _)
Pow(b, e) == IF e = 0 THEN 1 ELSE b * Pow(b, e - 1)

\* ------------------------------------------------------- upstream answers
StatusCodes == {200, 401, 404, 429, 500, 503}
Bodies == {"body_a", "body_b"}
ErrorTexts == {"conn reset", "dns failure"}

StatusResp(c, b) == [kind |-> "status", code |-> c, body |-> b, text |-> ""]
TimeoutResp(t) == [kind |-> "timeout", code |-> 0, body |-> "", text |-> t]
ClientErrorResp(t) == [kind |-> "client_error", code |-> 0, body |-> "", text |-> t]
ExceptionResp(t) == [kind |-> "exception", code |-> 0, body |-> "", text |-> t]

Responses ==
    {StatusResp(200, b) : b \in Bodies}
    \cup {StatusResp(c, "") : c \in StatusCodes \ {200}}
    \cup {TimeoutResp("read timeout")}
    \cup {ClientErrorResp(t) : t \in ErrorTexts}
    \cup {ExceptionResp("bad json")}

\* ------------------------------------------------------------- ToolError
ToolError(m, c, d) == [msg |-> m, code |-> c, detail |-> d]
NoError == ToolError(<<>>, 0, "")

\* except Exception as e: raise ToolError(f"Request failed: {str(e)}")
Rewrap(e) == ToolError(<<"Request failed: ">> \o e.msg, e.code, e.detail)

Pending == [type |-> "pending", value |-> "", error |-> NoError]
Return(v) == [type |-> "return", value |-> v, error |-> NoError]
Raise(e) == [type |-> "raise", value |-> "", error |-> e]

VARIABLES
    session,      \* HTTPSessionManager._session: None or the id of a session
    connector,    \* HTTPSessionManager._connector: None or a connector id
    closed,       \* ids of the ClientSession objects that are closed
    created,      \* number of ClientSession objects constructed so far
    connectors,   \* number of TCPConnector objects constructed so far
    caller,       \* coroutines that call get_session / close directly
    call,         \* calls of make_request_with_retry
    targetare_key,\* api_config.targetare_key is set
    google_search_key, \* api_config.google_search_key is set
    google_search_cx,  \* api_config.google_search_cx is set
    cmp,          \* one invocation of the compare_financial_performance tool
    taxid,        \* one call of validate_tax_id: its argument and its result
    fin,          \* one fetched financial record and the tool applied to it
    trend,        \* one fetched series of periods and the trend analysis of it
    tool          \* one invocation of a tool other than the comparison

sessVars == <<session, connector, closed, created, connectors>>
confVars == <<targetare_key, google_search_key, google_search_cx>>
vars == <<session, connector, closed, created, connectors, caller, call,
          targetare_key, google_search_key, google_search_cx, cmp, taxid, fin,
          trend, tool>>

Callers == 1..NumCallers
Tasks == 1..(2 * MaxFanout)     \* two fetches per compared company
RetryTasks == {1}               \* the call followed on its own

\* ============================================================ session manager

\* if self._session is None or self._session.closed
NeedsNewSession_Always(s, cl) == TRUE

NeedsNewSession_IgnoresClosed(s, cl) == s = None

NeedsNewSession(s, cl) == s = None \/ s \in cl

\* get_session has no await in its body: the test, the two constructions and
\* the return run without suspension.  The three operators give the manager's
\* fields after the call; the returned handle is SessionAfterGet.
SessionAfterGet == IF NeedsNewSession(session, closed) THEN created + 1 ELSE session
ConnectorAfterGet == IF NeedsNewSession(session, closed) THEN connectors + 1 ELSE connector
CreatedAfterGet == IF NeedsNewSession(session, closed) THEN created + 1 ELSE created
ConnectorsAfterGet == IF NeedsNewSession(session, closed) THEN connectors + 1 ELSE connectors

\* The effect of one get_session call on the manager.
get_session ==
    /\ NeedsNewSession(session, closed) => created < MaxSessions
    /\ session' = SessionAfterGet
    /\ connector' = ConnectorAfterGet
    /\ created' = CreatedAfterGet
    /\ connectors' = ConnectorsAfterGet
    /\ closed' = closed

\* if self._session and not self._session.closed
CloseActs_IgnoresClosed(s, cl) == s # None

CloseActs(s, cl) == s # None /\ s \notin cl

IdleCaller == [pc |-> "idle", handle |-> None, ops |-> 0, op |-> "none", slept |-> 0]

\* A coroutine calls session_manager.get_session() and keeps the handle.
GetSession(c) ==
    /\ caller[c].pc = "idle"
    /\ caller[c].ops < MaxOps
    /\ get_session
    /\ caller' = [caller EXCEPT ![c] =
                    [@ EXCEPT !.handle = SessionAfterGet, !.ops = @ + 1,
                              !.op = "get", !.slept = 0]]
    /\ UNCHANGED <<call, confVars, trend, tool, cmp, taxid, fin>>

\* A coroutine calls session_manager.close(): the test and, when it passes,
\* self._session.close(), which marks the session closed before it first
\* suspends; the coroutine then waits in asyncio.sleep(0.25).  When the test
\* fails the call returns at once.
CloseBegin(c) ==
    /\ caller[c].pc = "idle"
    /\ caller[c].ops < MaxOps
    /\ closed' = IF CloseActs(session, closed) THEN closed \cup {session} ELSE closed
    /\ caller' = [caller EXCEPT ![c] =
                    [@ EXCEPT !.pc = IF CloseActs(session, closed) THEN "grace" ELSE "idle",
                              !.ops = @ + 1, !.op = "close", !.slept = 0]]
    /\ UNCHANGED <<session, connector, created, connectors, call, confVars, trend, tool, cmp, taxid, fin>>

\* The grace sleep of close() ends and close() returns.
CloseEnd(c) ==
    /\ caller[c].pc = "grace"
    /\ caller' = [caller EXCEPT ![c] = [@ EXCEPT !.pc = "idle", !.slept = CloseGraceCs]]
    /\ UNCHANGED <<sessVars, call, confVars, trend, tool, cmp, taxid, fin>>

\* ============================================================ request executor

IdleCall ==
    [pc |-> "idle", max_retries |-> 0, attempt |-> 0, session |-> None,
     observed |-> <<>>, sleeps |-> <<>>, sent |-> 0, outcome |-> Pending]

Finish(c, out) ==
    [c EXCEPT !.pc = IF out.type = "return" THEN "returned" ELSE "raised",
              !.outcome = out]

Ended(c) == c.pc \in {"returned", "raised"}

\* wait_time = RETRY_BACKOFF_FACTOR ** attempt; await asyncio.sleep(wait_time)
Backoff(c) ==
    [c EXCEPT !.pc = "sleeping",
              !.sleeps = Append(@, Pow(RETRY_BACKOFF_FACTOR, c.attempt))]

\* if attempt == max_retries - 1: raise ...; await asyncio.sleep(...)
RaiseOnLastElseBackoff_NeverRaise(c, e) == Backoff(c)

RaiseOnLastElseBackoff(c, e) ==
    IF c.attempt = c.max_retries - 1 THEN Finish(c, Raise(e)) ELSE Backoff(c)

\* elif response.status == 401: raise ToolError(...).  The raise is inside the
\* try block, so `except Exception` catches it and raises it again with the
\* "Request failed: " prefix.
OnAuthFailure_Retried(c) ==
    RaiseOnLastElseBackoff(c, Rewrap(ToolError(
        <<"Authentication failed - Invalid API key">>, 0, "")))

OnAuthFailure(c) ==
    Finish(c, Raise(Rewrap(ToolError(
        <<"Authentication failed - Invalid API key">>, 0, ""))))

\* elif response.status == 404: return None
OnNotFound_Retried(c) == Backoff(c)

OnNotFound(c) == Finish(c, Return(NoneValue))

\* elif response.status == 429: sleep and continue, on every attempt.
OnRateLimited(c) == Backoff(c)

\* else: the other statuses.  The ToolError of the last attempt is raised
\* inside the try block too, hence wrapped again.
OnOtherStatus(c, resp) ==
    RaiseOnLastElseBackoff(c, Rewrap(ToolError(
        <<"API request failed with status ">>, resp.code, "")))

\* The body of `async with session.get(...) as response` for a status code.
OnStatus(c, resp) ==
    CASE resp.code = 200 -> Finish(c, Return(resp.body))
      [] resp.code = 401 -> OnAuthFailure(c)
      [] resp.code = 404 -> OnNotFound(c)
      [] resp.code = 429 -> OnRateLimited(c)
      [] OTHER -> OnOtherStatus(c, resp)

\* One attempt's outcome: a status, or one of the three except clauses.
OnResponse(c, resp) ==
    LET d == [c EXCEPT !.observed = Append(@, resp)] IN
    CASE resp.kind = "status" -> OnStatus(d, resp)
      [] resp.kind = "timeout" ->
            RaiseOnLastElseBackoff(d, ToolError(
                <<"Request timeout - API not responding">>, 0, ""))
      [] resp.kind = "client_error" ->
            RaiseOnLastElseBackoff(d, ToolError(<<"Network error: ">>, 0, resp.text))
      [] OTHER -> Finish(d, Raise(ToolError(<<"Request failed: ">>, 0, resp.text)))

\* for attempt in range(max_retries): the loop test, then session.get(...).
\* A closed session makes session.get raise RuntimeError, which the last
\* except clause turns into a ToolError; past the range the function
\* returns None (line 348).
LoopHead_OneMore(c, cl) ==
    IF c.attempt <= c.max_retries
    THEN [c EXCEPT !.pc = "waiting", !.sent = @ + 1]
    ELSE Finish(c, Return(NoneValue))

LoopHead(c, cl) ==
    IF c.attempt < c.max_retries
    THEN IF c.session \in cl
         THEN Finish(c, Raise(ToolError(<<"Request failed: ">>, 0, "Session is closed")))
         ELSE [c EXCEPT !.pc = "waiting", !.sent = @ + 1]
    ELSE Finish(c, Return(NoneValue))

\* The call starts: session = await session_manager.get_session(), first attempt.
Start(r, M) ==
    /\ call[r].pc = "idle"
    /\ get_session
    /\ \E m \in M :
          call' = [call EXCEPT ![r] =
                      LoopHead([IdleCall EXCEPT !.max_retries = m,
                                                !.session = SessionAfterGet], closed)]
    /\ UNCHANGED <<caller, confVars, trend, tool, cmp, taxid, fin>>

\* The upstream answers the pending attempt (or the attempt fails).
Respond(r, R) ==
    /\ call[r].pc = "waiting"
    /\ \E resp \in R : call' = [call EXCEPT ![r] = OnResponse(call[r], resp)]
    /\ UNCHANGED <<sessVars, caller, confVars, trend, tool, cmp, taxid, fin>>

\* The backoff sleep ends: the next iteration of the loop.
Wake(r) ==
    /\ call[r].pc = "sleeping"
    /\ call' = [call EXCEPT ![r] = LoopHead([call[r] EXCEPT !.attempt = @ + 1], closed)]
    /\ UNCHANGED <<sessVars, caller, confVars, trend, tool, cmp, taxid, fin>>

\* ============================================================ tax-id validation

\* A tax id argument: a Python value that is a string (its characters) or not.
Str(chars) == [isStr |-> TRUE, chars |-> chars]
NotAString == [isStr |-> FALSE, chars |-> <<>>]

\* Characters are those of Latin-1 (U+0000 to U+00FF).
DigitChars == {"0", "1", "2", "3", "4", "5", "6", "7", "8", "9"}

\* str.isdigit() is also true of the superscript digits, which are no
\* decimal digits.
SuperscriptDigits == {"²", "³", "¹"}

\* The characters str.isspace() is true of, which str.strip() removes:
\* blank, tab, line feed, carriage return, form feed and vertical tab
\* (U+000B); the information separators U+001C to U+001F; the next-line
\* control U+0085 and the no-break space U+00A0.
AsciiSpaces == {" ", "\t", "\n", "\r", "\f", ""}
InfoSeparators == {"", "", "", ""}
LatinSpaces == {"", " "}
SpaceChars == AsciiSpaces \cup InfoSeparators \cup LatinSpaces

LowerLetters ==
    <<"a", "b", "c", "d", "e", "f", "g", "h", "i", "j", "k", "l", "m", "n",
      "o", "p", "q", "r", "s", "t", "u", "v", "w", "x", "y", "z", "à", "á",
      "â", "ã", "ä", "å", "æ", "ç", "è", "é", "ê", "ë", "ì", "í", "î", "ï",
      "ð", "ñ", "ò", "ó", "ô", "õ", "ö", "ø", "ù", "ú", "û", "ü", "ý", "þ", "µ">>
UpperLetters ==
    <<"A", "B", "C", "D", "E", "F", "G", "H", "I", "J", "K", "L", "M", "N",
      "O", "P", "Q", "R", "S", "T", "U", "V", "W", "X", "Y", "Z", "À", "Á",
      "Â", "Ã", "Ä", "Å", "Æ", "Ç", "È", "É", "Ê", "Ë", "Ì", "Í", "Î", "Ï",
      "Ð", "Ñ", "Ò", "Ó", "Ô", "Õ", "Ö", "Ø", "Ù", "Ú", "Û", "Ü", "Ý", "Þ", "Μ">>

\* ch.upper(): the capital of a lower-case letter (that of the micro sign
\* U+00B5 is the Greek capital mu, U+039C), "SS" for the sharp s, every
\* other character unchanged.  The capital of U+00FF is U+0178, which no
\* string of this module can hold: UpperChar has no value on U+00FF.
UpperChar(ch) ==
    CASE \E i \in 1..Len(LowerLetters) : LowerLetters[i] = ch ->
             UpperLetters[CHOOSE i \in 1..Len(LowerLetters) : LowerLetters[i] = ch]
      [] ch = "ß" -> "SS"
      [] /\ \A i \in 1..Len(LowerLetters) : LowerLetters[i] # ch
         /\ ch \notin {"ß", "ÿ"} -> ch

\* str.upper(), character by character; the sharp s becomes two characters.
RECURSIVE Upper(_)
Upper(s) ==
    IF s = <<>> THEN <<>>
    ELSE (IF Head(s) = "ß" THEN <<"S", "S">> ELSE <<UpperChar(Head(s))>>)
         \o Upper(Tail(s))

RECURSIVE StripLeft(_)
StripLeft(s) ==
    IF s # <<>> /\ s[1] \in SpaceChars THEN StripLeft(Tail(s)) ELSE s

RECURSIVE StripRight(_)
StripRight(s) ==
    IF s # <<>> /\ s[Len(s)] \in SpaceChars
    THEN StripRight(SubSeq(s, 1, Len(s) - 1)) ELSE s

\* str.strip()
Strip(s) == StripRight(StripLeft(s))

\* str.replace(pat, ""): the non-overlapping occurrences, left to right.
RECURSIVE RemoveAll(_, _)
RemoveAll(s, pat) ==
    IF Len(s) < Len(pat) THEN s
    ELSE IF SubSeq(s, 1, Len(pat)) = pat
         THEN RemoveAll(SubSeq(s, Len(pat) + 1, Len(s)), pat)
         ELSE <<s[1]>> \o RemoveAll(Tail(s), pat)

\* str.isdigit
IsDigit(ch) == ch \in DigitChars \cup SuperscriptDigits

\* ''.join(filter(str.isdigit, cleaned))
FilterDigits(s) == SelectSeq(s, IsDigit)

\* The string validate_tax_id works on after lines 278-280.
CleanTaxId(chars) ==
    FilterDigits(Strip(
        RemoveAll(RemoveAll(RemoveAll(Upper(Strip(chars)),
            <<"R", "O">>), <<"C", "U", "I">>), <<"C", "I", "F">>)))

Valid(v) == [ok |-> TRUE, value |-> v, error |-> NoError]
Invalid(e) == [ok |-> FALSE, value |-> <<>>, error |-> e]

\* len(cleaned) < 2 or len(cleaned) > 10
BadTaxIdLength(n) == n < MinTaxIdLen \/ n > MaxTaxIdLen

\* validate_tax_id: the cleaned id, or the ToolError it raises.
validate_tax_id(t) ==
    IF ~t.isStr \/ t.chars = <<>>
    THEN Invalid(ToolError(<<"Tax ID must be a non-empty string">>, 0, ""))
    ELSE LET cleaned == CleanTaxId(t.chars) IN
         IF cleaned = <<>>
         THEN Invalid(ToolError(<<"Invalid tax ID: ", ". Must contain digits.">>, 0, ""))
         ELSE IF BadTaxIdLength(Len(cleaned))
              THEN Invalid(ToolError(
                       <<"Invalid tax ID length: ", ". Must be 2-10 digits.">>,
                       Len(cleaned), ""))
              ELSE Valid(cleaned)

\* One call of validate_tax_id on its own: the argument, then the result.
IdleTaxId == [pc |-> "idle", input |-> NotAString, result |-> Invalid(NoError)]

ValidateTaxId ==
    /\ taxid.pc = "idle"
    /\ taxid' = [taxid EXCEPT
                    !.pc = IF validate_tax_id(taxid.input).ok THEN "returned" ELSE "raised",
                    !.result = validate_tax_id(taxid.input)]
    /\ UNCHANGED <<sessVars, caller, call, confVars, trend, tool, cmp, fin>>

\* ============================================================ metrics engine

\* A fetched financial record is a JSON object: each key is absent, holds
\* null, holds a whole number, or holds a string (its characters).  Fields
\* are the keys the ratio functions read.
Fields ==
    {"current_assets", "current_liabilities", "inventory", "cash", "revenue",
     "cost_of_goods_sold", "operating_income", "net_income", "total_assets",
     "total_equity", "total_debt", "ebit", "interest_expense",
     "accounts_receivable"}

\* The keys of a record: the fields and a key no function reads.
Keys == Fields \cup {"currency"}

Absent == [kind |-> "absent", num |-> 0, chars |-> <<>>]
JsonNull == [kind |-> "null", num |-> 0, chars |-> <<>>]
Num(n) == [kind |-> "num", num |-> n, chars |-> <<>>]
JsonStr(chars) == [kind |-> "str", num |-> 0, chars |-> chars]
Text == JsonStr(<<"R", "O", "N">>)

\* A ratio of the result: None, or a float kept in hundredths (1.25 is 125).
NoRatio == [null |-> TRUE, x |-> 0]
Ratio(x) == [null |-> FALSE, x |-> x]

\* ------------------------------------------------------------ float(str)

\* float(s) of a string.  An underscore may stand between two digits only.
\* The white space around the number is dropped; the information separators
\* are no white space here.  What is left must be
\* [sign] digits [. digits] [e [sign] digits] with a digit before the
\* exponent, or inf, infinity or nan in either case.
FloatSpaces == AsciiSpaces \cup LatinSpaces

\* prev is the character before s, "" at the start of the string.
RECURSIVE UnderscoresOk(_, _)
UnderscoresOk(s, prev) ==
    IF s = <<>> THEN prev # "_"
    ELSE /\ Head(s) = "_" => prev \in DigitChars
         /\ (prev = "_" /\ Head(s) # "_") => Head(s) \in DigitChars
         /\ UnderscoresOk(Tail(s), Head(s))

RECURSIVE TrimLeft(_, _)
TrimLeft(s, spaces) ==
    IF s # <<>> /\ s[1] \in spaces THEN TrimLeft(Tail(s), spaces) ELSE s

RECURSIVE TrimRight(_, _)
TrimRight(s, spaces) ==
    IF s # <<>> /\ s[Len(s)] \in spaces
    THEN TrimRight(SubSeq(s, 1, Len(s) - 1), spaces) ELSE s

\* The string without its underscores and the white space around it.
FloatBody(s) ==
    TrimRight(TrimLeft(SelectSeq(s, LAMBDA ch : ch # "_"), FloatSpaces), FloatSpaces)

IsNegative(t) == t # <<>> /\ t[1] = "-"
Unsigned(t) == IF t # <<>> /\ t[1] \in {"+", "-"} THEN Tail(t) ELSE t

AsciiLower(ch) ==
    IF \E i \in 1..26 : UpperLetters[i] = ch
    THEN LowerLetters[CHOOSE i \in 1..26 : UpperLetters[i] = ch]
    ELSE ch

IsInfOrNan(t) ==
    [i \in 1..Len(t) |-> AsciiLower(t[i])] \in
        {<<"i", "n", "f">>, <<"i", "n", "f", "i", "n", "i", "t", "y">>,
         <<"n", "a", "n">>}

DecimalDigits == <<"0", "1", "2", "3", "4", "5", "6", "7", "8", "9">>
DigitValue(ch) == (CHOOSE i \in 1..10 : DecimalDigits[i] = ch) - 1

\* A decimal as it is read: the digits of the mantissa, how many of them
\* follow the point, and the exponent (its size stops growing at 10 ** 6).
NoDecimal ==
    [ok |-> FALSE, digits |-> <<>>, scale |-> 0, expNeg |-> FALSE, exp |-> 0]

\* phase is "int" before the point, "frac" behind it, "sign" behind the e,
\* "first" behind the sign of the exponent and "exp" inside its digits.
RECURSIVE ScanDecimal(_, _, _)
ScanDecimal(t, phase, d) ==
    IF t = <<>>
    THEN [d EXCEPT !.ok = \/ phase \in {"int", "frac"} /\ d.digits # <<>>
                          \/ phase = "exp"]
    ELSE CASE phase = "int" /\ Head(t) \in DigitChars ->
                  ScanDecimal(Tail(t), "int", [d EXCEPT !.digits = Append(@, Head(t))])
           [] phase = "int" /\ Head(t) = "." ->
                  ScanDecimal(Tail(t), "frac", d)
           [] phase = "frac" /\ Head(t) \in DigitChars ->
                  ScanDecimal(Tail(t), "frac",
                              [d EXCEPT !.digits = Append(@, Head(t)), !.scale = @ + 1])
           [] phase \in {"int", "frac"} /\ Head(t) \in {"e", "E"} /\ d.digits # <<>> ->
                  ScanDecimal(Tail(t), "sign", d)
           [] phase = "sign" /\ Head(t) \in {"+", "-"} ->
                  ScanDecimal(Tail(t), "first", [d EXCEPT !.expNeg = (Head(t) = "-")])
           [] phase \in {"sign", "first", "exp"} /\ Head(t) \in DigitChars ->
                  ScanDecimal(Tail(t), "exp",
                      [d EXCEPT !.exp = IF 10 * @ + DigitValue(Head(t)) > 1000000
                                        THEN 1000000
                                        ELSE 10 * @ + DigitValue(Head(t))])
           [] OTHER -> NoDecimal

Decimal(s) == ScanDecimal(Unsigned(FloatBody(s)), "int", NoDecimal)

\* float(s) returns; otherwise it raises ValueError.
FloatAccepts(s) ==
    UnderscoresOk(s, "") /\ (IsInfOrNan(Unsigned(FloatBody(s))) \/ Decimal(s).ok)

RECURSIVE WithoutLeadingZeros(_)
WithoutLeadingZeros(digits) ==
    IF digits # <<>> /\ digits[1] = "0"
    THEN WithoutLeadingZeros(Tail(digits)) ELSE digits

RECURSIVE TrailingZeros(_)
TrailingZeros(digits) ==
    IF digits # <<>> /\ digits[Len(digits)] = "0"
    THEN 1 + TrailingZeros(SubSeq(digits, 1, Len(digits) - 1)) ELSE 0

RECURSIVE IntOfDigits(_)
IntOfDigits(digits) ==
    IF digits = <<>> THEN 0
    ELSE 10 * IntOfDigits(SubSeq(digits, 1, Len(digits) - 1))
         + DigitValue(digits[Len(digits)])

\* digits * 10 ** exp10 for digits that start with a non-zero digit.  The
\* amounts of this module are whole numbers below 10 ** 9: the value is
\* given when it is one of them, and when it is so small that the nearest
\* double is 0.0 (below 2 * 10 ** -324, which is less than half the least
\* positive double); it has no value here otherwise.
WholeValue(digits, exp10) ==
    CASE exp10 >= 0 /\ Len(digits) + exp10 <= 9 ->
             IntOfDigits(digits) * Pow(10, exp10)
      [] exp10 < 0 /\ exp10 + TrailingZeros(digits) >= 0 /\ Len(digits) + exp10 <= 9 ->
             IntOfDigits(SubSeq(digits, 1, Len(digits) + exp10))
      [] \/ Len(digits) + exp10 <= -324
         \/ Len(digits) + exp10 = -323 /\ digits[1] = "1" -> 0

DecimalValue(d, negative) ==
    CASE d.ok /\ WithoutLeadingZeros(d.digits) = <<>> -> 0
      [] d.ok /\ WithoutLeadingZeros(d.digits) # <<>> ->
             (IF negative THEN -1 ELSE 1)
             * WholeValue(WithoutLeadingZeros(d.digits),
                          (IF d.expNeg THEN -d.exp ELSE d.exp) - d.scale)

\* The float float(s) returns, for the strings it accepts that spell an
\* amount of this module; an infinity and a NaN are none, and minus zero is
\* zero.
FloatValue(s) == DecimalValue(Decimal(s), IsNegative(FloatBody(s)))

\* repr(s): between apostrophes, or between quotation marks when s holds an
\* apostrophe and no quotation mark; the quote and the backslash escaped,
\* a character that is not printable written as an escape (\t, \n, \r or
\* \xNN).  The printable characters are listed without the grave accent
\* U+0060, which no string of this module can hold.
PrintableChars ==
    {" ", "!", "\"", "#", "$", "%", "&", "'", "(", ")", "*", "+", ",", "-", ".", "/",
     "0", "1", "2", "3", "4", "5", "6", "7", "8", "9", ":", ";", "<", "=", ">", "?",
     "@", "A", "B", "C", "D", "E", "F", "G", "H", "I", "J", "K", "L", "M", "N", "O",
     "P", "Q", "R", "S", "T", "U", "V", "W", "X", "Y", "Z", "[", "\\", "]", "^", "_",
     "a", "b", "c", "d", "e", "f", "g", "h", "i", "j", "k", "l", "m", "n", "o",
     "p", "q", "r", "s", "t", "u", "v", "w", "x", "y", "z", "{", "|", "}", "~", "¡",
     "¢", "£", "¤", "¥", "¦", "§", "¨", "©", "ª", "«", "¬", "®", "¯", "°", "±", "²",
     "³", "´", "µ", "¶", "·", "¸", "¹", "º", "»", "¼", "½", "¾", "¿", "À", "Á", "Â",
     "Ã", "Ä", "Å", "Æ", "Ç", "È", "É", "Ê", "Ë", "Ì", "Í", "Î", "Ï", "Ð", "Ñ", "Ò",
     "Ó", "Ô", "Õ", "Ö", "×", "Ø", "Ù", "Ú", "Û", "Ü", "Ý", "Þ", "ß", "à", "á", "â",
     "ã", "ä", "å", "æ", "ç", "è", "é", "ê", "ë", "ì", "í", "î", "ï", "ð", "ñ", "ò",
     "ó", "ô", "õ", "ö", "÷", "ø", "ù", "ú", "û", "ü", "ý", "þ", "ÿ"}

\* The characters that are not printable: U+0001 to U+001F, U+007F to
\* U+00A0, each at the place its code point gives it, and the soft hyphen
\* U+00AD.  (U+0000 is another; it is kept out of the strings here.)
LowControls ==
    <<"", "", "", "", "", "", "", "", "\t", "\n", "",
      "\f", "\r", "", "", "", "", "", "", "", "", "", "",
      "", "", "", "", "", "", "", "">>
HighControls ==
    <<"", "", "", "", "", "", "", "", "", "", "", "",
      "", "", "", "", "", "", "", "", "", "", "", "",
      "", "", "", "", "", "", "", "", "", " ">>
SoftHyphen == "­"
HexDigits ==
    <<"0", "1", "2", "3", "4", "5", "6", "7", "8", "9", "a", "b", "c", "d", "e", "f">>

\* \xNN of a code point below 256.
HexEscape(code) == <<"\\", "x", HexDigits[(code \div 16) + 1], HexDigits[(code % 16) + 1]>>

ReprChar(ch, quote) ==
    CASE ch \in {quote, "\\"} -> <<"\\", ch>>
      [] ch = "\t" -> <<"\\", "t">>
      [] ch = "\n" -> <<"\\", "n">>
      [] ch = "\r" -> <<"\\", "r">>
      [] ch \notin {"\t", "\n", "\r"} /\ (\E i \in 1..Len(LowControls) : LowControls[i] = ch) ->
             HexEscape(CHOOSE i \in 1..Len(LowControls) : LowControls[i] = ch)
      [] \E i \in 1..Len(HighControls) : HighControls[i] = ch ->
             HexEscape((CHOOSE i \in 1..Len(HighControls) : HighControls[i] = ch) + 126)
      [] ch = SoftHyphen -> HexEscape(173)
      [] ch \in PrintableChars \ {quote, "\\"} -> <<ch>>

RECURSIVE ReprChars(_, _)
ReprChars(s, quote) ==
    IF s = <<>> THEN <<>> ELSE ReprChar(Head(s), quote) \o ReprChars(Tail(s), quote)

ReprQuote(s) ==
    IF (\E i \in 1..Len(s) : s[i] = "'") /\ (\A i \in 1..Len(s) : s[i] # "\"")
    THEN "\"" ELSE "'"

Repr(s) == <<ReprQuote(s)>> \o ReprChars(s, ReprQuote(s)) \o <<ReprQuote(s)>>

\* ------------------------------------------------------------ reading a field

\* financials.get(f, 0): the default stands in for an absent field.
Get(rec, f) == IF rec[f].kind = "absent" THEN Num(0) ELSE rec[f]

\* float(v) raises: TypeError on None, ValueError on a string that spells
\* no number.  Both end in the except branch of the family.
ValueRaises(v) == v.kind = "null" \/ (v.kind = "str" /\ ~FloatAccepts(v.chars))
AsFloat(v) == IF v.kind = "str" THEN FloatValue(v.chars) ELSE v.num

FloatRaises(rec, fs) == \E f \in fs : ValueRaises(Get(rec, f))
Float(rec, f) == AsFloat(Get(rec, f))

\* ------------------------------------------------------------ float arithmetic

\* Exact natural numbers: the base-1000 digits, lowest first, zero being the
\* empty sequence.
RECURSIVE BigMul(_, _, _)
BigMul(a, m, carry) ==
    IF m = 0 THEN <<>>
    ELSE IF a = <<>>
    THEN IF carry = 0 THEN <<>>
         ELSE <<carry % 1000>> \o BigMul(<<>>, m, carry \div 1000)
    ELSE <<(Head(a) * m + carry) % 1000>>
             \o BigMul(Tail(a), m, (Head(a) * m + carry) \div 1000)

\* f * b^k
RECURSIVE BigPowTimes(_, _, _)
BigPowTimes(b, k, f) ==
    IF k = 0 THEN BigMul(<<1>>, f, 0) ELSE BigMul(BigPowTimes(b, k - 1, f), b, 0)

RECURSIVE BigLeq(_, _)
BigLeq(a, b) ==
    IF Len(a) # Len(b) THEN Len(a) < Len(b)
    ELSE IF a = <<>> THEN TRUE
    ELSE IF a[Len(a)] # b[Len(b)] THEN a[Len(a)] < b[Len(b)]
    ELSE BigLeq(SubSeq(a, 1, Len(a) - 1), SubSeq(b, 1, Len(b) - 1))

BigOfInt(n) == BigMul(<<>>, 1, n)

RECURSIVE BigToInt(_)
BigToInt(a) == IF a = <<>> THEN 0 ELSE Head(a) + 1000 * BigToInt(Tail(a))

BigIsOdd(a) == a # <<>> /\ Head(a) % 2 = 1

RECURSIVE BigTrim(_)
BigTrim(a) ==
    IF a # <<>> /\ a[Len(a)] = 0 THEN BigTrim(SubSeq(a, 1, Len(a) - 1)) ELSE a

RECURSIVE BigAddDigits(_, _, _)
BigAddDigits(a, b, carry) ==
    IF a = <<>> /\ b = <<>> THEN (IF carry = 0 THEN <<>> ELSE <<carry>>)
    ELSE LET x == IF a = <<>> THEN 0 ELSE Head(a)
             y == IF b = <<>> THEN 0 ELSE Head(b)
         IN  <<(x + y + carry) % 1000>>
                 \o BigAddDigits(IF a = <<>> THEN <<>> ELSE Tail(a),
                                 IF b = <<>> THEN <<>> ELSE Tail(b),
                                 (x + y + carry) \div 1000)

BigAdd(a, b) == BigAddDigits(a, b, 0)

\* a - b - borrow, digit by digit, for a >= b
RECURSIVE BigSubDigits(_, _, _)
BigSubDigits(a, b, borrow) ==
    IF a = <<>> THEN <<>>
    ELSE LET y == (IF b = <<>> THEN 0 ELSE Head(b)) + borrow IN
         <<(Head(a) - y) % 1000>>
             \o BigSubDigits(Tail(a), IF b = <<>> THEN <<>> ELSE Tail(b),
                             IF Head(a) < y THEN 1 ELSE 0)

BigSub(a, b) == BigTrim(BigSubDigits(a, b, 0))

\* Quotient and remainder of a by a divisor 0 < d < 2^31 / 1000.
RECURSIVE BigDivMod(_, _)
BigDivMod(a, d) ==
    IF a = <<>> THEN [q |-> <<>>, r |-> 0]
    ELSE LET hi == BigDivMod(Tail(a), d)
             cur == hi.r * 1000 + Head(a)
         IN  [q |-> IF hi.q = <<>> /\ cur < d THEN <<>> ELSE <<cur \div d>> \o hi.q,
              r |-> cur % d]

\* a * 2^k
RECURSIVE BigShl(_, _)
BigShl(a, k) ==
    IF k = 0 THEN a
    ELSE IF k >= 10 THEN BigShl(BigMul(a, 1024, 0), k - 10)
    ELSE BigShl(BigMul(a, 2, 0), k - 1)

\* a \div 2^k, and whether a bit was shifted out
RECURSIVE BigShr(_, _)
BigShr(a, k) ==
    IF k = 0 THEN [q |-> a, sticky |-> FALSE]
    ELSE LET step == IF k >= 10 THEN 1024 ELSE 2
             dm == BigDivMod(a, step)
             rest == BigShr(dm.q, IF k >= 10 THEN k - 10 ELSE k - 1)
         IN  [q |-> rest.q, sticky |-> rest.sticky \/ dm.r # 0]

\* The number of binary digits of a.
RECURSIVE BitLen(_)
BitLen(a) ==
    IF a = <<>> THEN 0
    ELSE IF Len(a) > 1 \/ a[1] >= 1024 THEN 10 + BitLen(BigDivMod(a, 1024).q)
    ELSE 1 + BitLen(BigDivMod(a, 2).q)

\* Long division by a natural number d > 0 of any size, ten binary digits
\* at a time: the digits of c below 2^k are brought down behind the
\* remainder r, highest first.
RECURSIVE BringDown(_, _, _, _, _)
BringDown(q, r, c, k, d) ==
    IF k = 0 THEN [q |-> q, r |-> r]
    ELSE LET r2 == BigMul(r, 2, (c \div Pow(2, k - 1)) % 2) IN
         IF BigLeq(d, r2)
         THEN BringDown(2 * q + 1, BigSub(r2, d), c, k - 1, d)
         ELSE BringDown(2 * q, r2, c, k - 1, d)

\* Quotient and remainder of n by d.
RECURSIVE BigDivBig(_, _)
BigDivBig(n, d) ==
    IF n = <<>> THEN [q |-> <<>>, r |-> <<>>]
    ELSE LET low == BigDivMod(n, 1024)
             hi == BigDivBig(low.q, d)
             step == BringDown(0, hi.r, low.r, 10, d)
         IN  [q |-> BigMul(hi.q, 1024, step.q), r |-> step.r]

\* a * b
RECURSIVE BigTimes(_, _)
BigTimes(a, b) ==
    IF a = <<>> \/ b = <<>> THEN <<>>
    ELSE LET rest == BigTimes(a, Tail(b)) IN
         BigAdd(BigMul(a, Head(b), 0), IF rest = <<>> THEN <<>> ELSE <<0>> \o rest)

\* a^k
RECURSIVE BigPow(_, _)
BigPow(a, k) == IF k = 0 THEN <<1>> ELSE BigTimes(BigPow(a, k - 1), a)

\* a \div 10^9
BigDropBillion(a) == IF Len(a) <= 3 THEN <<>> ELSE SubSeq(a, 4, Len(a))

\* A Python float (an IEEE 754 double): the number m / 2^s, negated when neg.
\* Every operation below gives the double nearest to its exact result, ties
\* to the even significand of 53 binary digits, as the hardware does.
Double(neg, m, s) == [neg |-> neg /\ m # <<>>, m |-> m, s |-> s]

\* k: the 53 leading digits; half, more: the digit below them and the rest
RoundHalf(neg, k, half, more, s) ==
    Double(neg, IF half /\ (more \/ BigIsOdd(k)) THEN BigMul(k, 1, 1) ELSE k, s)

\* sh: w without its digits below the 54th, and whether one of them was set
RoundShifted(neg, sh, s, sticky) ==
    RoundHalf(neg, BigDivMod(sh.q, 2).q, BigIsOdd(sh.q), sh.sticky \/ sticky, s)

\* The double nearest to w / 2^s (plus a fraction of one unit of w when
\* `sticky`; w then has more than 55 binary digits).
RoundToDouble(neg, w, s, sticky) ==
    IF BitLen(w) <= 53 THEN Double(neg, w, s)
    ELSE RoundShifted(neg, BigShr(w, BitLen(w) - 54), s - (BitLen(w) - 53), sticky)

Magnitude(n) == IF n < 0 THEN -n ELSE n

\* float(n) of an integer below 2^53
FloatOf(n) == Double(n < 0, BigOfInt(Magnitude(n)), 0)

\* The double nearest to a quotient of 56 binary digits or more, the
\* remainder telling whether the division left a fraction.
RoundShort(neg, dm, shift) == RoundToDouble(neg, dm.q, shift, dm.r # 0)
RoundLong(neg, dm, shift) == RoundToDouble(neg, dm.q, shift, dm.r # <<>>)

FloatDivScaled(neg, scaled, d, shift) ==
    IF d < 2000000
    THEN RoundShort(neg, BigDivMod(scaled, d), shift)
    ELSE RoundLong(neg, BigDivBig(scaled, BigOfInt(d)), shift)

FloatDivShift(neg, n, d, shift) ==
    FloatDivScaled(neg, BigShl(BigOfInt(n), shift), d, shift)

\* n / d for two integers, d # 0
FloatDiv(n, d) ==
    FloatDivShift((n < 0) # (d < 0), Magnitude(n), Magnitude(d),
                  56 + BitLen(BigOfInt(Magnitude(d))))

\* x * k for an integer k > 0
FloatTimes(x, k) == RoundToDouble(x.neg, BigMul(x.m, k, 0), x.s, FALSE)

FloatMinusScaled(x, scaled) ==
    IF x.neg THEN RoundToDouble(TRUE, BigAdd(x.m, scaled), x.s, FALSE)
    ELSE IF BigLeq(scaled, x.m)
         THEN RoundToDouble(FALSE, BigSub(x.m, scaled), x.s, FALSE)
         ELSE RoundToDouble(TRUE, BigSub(scaled, x.m), x.s, FALSE)

\* x - k for an integer k >= 0
FloatMinus(x, k) == FloatMinusScaled(x, BigShl(BigOfInt(k), x.s))

\* x + k for a double x >= 0 and an integer k >= 0
FloatPlus(x, k) ==
    RoundToDouble(FALSE, BigAdd(x.m, BigShl(BigOfInt(k), x.s)), x.s, FALSE)

\* x > y for two doubles x >= 0 and y >= 0
FloatExceeds(x, y) == ~BigLeq(BigShl(x.m, y.s), BigShl(y.m, x.s))

FloatUnderShift(k, x, shift) ==
    RoundLong(x.neg, BigDivBig(BigShl(BigOfInt(k), shift), x.m), shift - x.s)

\* k / x for an integer k > 0 and x # 0
FloatUnder(k, x) == FloatUnderShift(k, x, 56 + BitLen(x.m))

Signed(neg, mag) == IF neg THEN -mag ELSE mag

HalfEven(k, half, sticky) ==
    BigToInt(k) + (IF half /\ (sticky \/ BigIsOdd(k)) THEN 1 ELSE 0)

\* sh: twice the magnitude, without its fraction
RoundHalfEven(neg, sh) ==
    Signed(neg, HalfEven(BigDivMod(sh.q, 2).q, BigIsOdd(sh.q), sh.sticky))

\* round(x, ndigits) in units of 1 / p, p = 10 ** ndigits: the integer
\* nearest to x * p, ties to even.  round() rounds the exact value of the
\* double, so a tie needs x * p to be exactly half an integer.
FloatRound(x, p) ==
    IF x.s = 0 THEN Signed(x.neg, BigToInt(BigMul(x.m, p, 0)))
    ELSE RoundHalfEven(x.neg, BigShr(BigMul(x.m, p, 0), x.s - 1))

\* int(x): the integer part
FloatTrunc(x) == Signed(x.neg, BigToInt(BigShr(x.m, x.s).q))

\* The integer nearest to n / d (d # 0) when n / d is not half an integer:
\* the double the code rounds is then on the same side of the tie as n / d.
NearestOf(sn, sd) == IF 2 * (sn % sd) < sd THEN sn \div sd ELSE sn \div sd + 1
Nearest(n, d) == NearestOf(IF d < 0 THEN -n ELSE n, Magnitude(d))
IsTie(n, d) == 2 * (Magnitude(n) % Magnitude(d)) = Magnitude(d)

\* round(n / d, ndigits) in units of 1 / p, p = 10 ** ndigits
RoundDiv(n, d, p) ==
    IF Magnitude(n) > 200000 \/ IsTie(p * n, d)
    THEN FloatRound(FloatDiv(n, d), p)
    ELSE Nearest(p * n, d)

\* round((n / d) * 100, 2) in hundredths
RoundPct(n, d) ==
    IF Magnitude(n) > 200000 \/ IsTie(10000 * n, d)
    THEN FloatRound(FloatTimes(FloatDiv(n, d), 100), 100)
    ELSE Nearest(10000 * n, d)

\* round(n / d, 2) and round((n / d) * 100, 2) as ratios of the result.
Round2(n, d) == Ratio(RoundDiv(n, d, 100))
Pct2(n, d) == Ratio(RoundPct(n, d))

\* if current_liabilities > 0
LiquidityDefined_NonZero(cl) == cl # 0

LiquidityDefined(cl) == cl > 0

LiquidityFields == {"current_assets", "current_liabilities", "inventory", "cash"}

calculate_liquidity_ratios(rec) ==
    LET current_assets == Float(rec, "current_assets")
        current_liabilities == Float(rec, "current_liabilities")
        inventory == Float(rec, "inventory")
        cash == Float(rec, "cash")
        none == [current_ratio |-> NoRatio, quick_ratio |-> NoRatio,
                 cash_ratio |-> NoRatio]
    IN  IF FloatRaises(rec, LiquidityFields) THEN none
        ELSE IF LiquidityDefined(current_liabilities)
        THEN [current_ratio |-> Round2(current_assets, current_liabilities),
              quick_ratio |-> Round2(current_assets - inventory, current_liabilities),
              cash_ratio |-> Round2(cash, current_liabilities)]
        ELSE none

ProfitabilityFields ==
    {"revenue", "cost_of_goods_sold", "operating_income", "net_income",
     "total_assets", "total_equity"}

calculate_profitability_ratios(rec) ==
    LET revenue == Float(rec, "revenue")
        cogs == Float(rec, "cost_of_goods_sold")
        operating_income == Float(rec, "operating_income")
        net_income == Float(rec, "net_income")
        total_assets == Float(rec, "total_assets")
        total_equity == Float(rec, "total_equity")
    IN  IF FloatRaises(rec, ProfitabilityFields)
        THEN [gross_profit_margin |-> NoRatio, operating_profit_margin |-> NoRatio,
              net_profit_margin |-> NoRatio, roa |-> NoRatio, roe |-> NoRatio]
        ELSE [gross_profit_margin |->
                  IF revenue > 0 THEN Pct2(revenue - cogs, revenue) ELSE NoRatio,
              operating_profit_margin |->
                  IF revenue > 0 THEN Pct2(operating_income, revenue) ELSE NoRatio,
              net_profit_margin |->
                  IF revenue > 0 THEN Pct2(net_income, revenue) ELSE NoRatio,
              roa |-> IF total_assets > 0 THEN Pct2(net_income, total_assets) ELSE NoRatio,
              roe |-> IF total_equity > 0 THEN Pct2(net_income, total_equity) ELSE NoRatio]

SolvencyFields ==
    {"total_debt", "total_equity", "total_assets", "ebit", "interest_expense"}

calculate_solvency_ratios(rec) ==
    LET total_debt == Float(rec, "total_debt")
        total_equity == Float(rec, "total_equity")
        total_assets == Float(rec, "total_assets")
        ebit == Float(rec, "ebit")
        interest_expense == Float(rec, "interest_expense")
    IN  IF FloatRaises(rec, SolvencyFields)
        THEN [debt_to_equity |-> NoRatio, debt_to_assets |-> NoRatio,
              equity_ratio |-> NoRatio, interest_coverage |-> NoRatio]
        ELSE [debt_to_equity |->
                  IF total_equity > 0 THEN Round2(total_debt, total_equity) ELSE NoRatio,
              debt_to_assets |->
                  IF total_assets > 0 THEN Round2(total_debt, total_assets) ELSE NoRatio,
              equity_ratio |->
                  IF total_assets > 0 THEN Round2(total_equity, total_assets) ELSE NoRatio,
              interest_coverage |->
                  IF interest_expense > 0 THEN Round2(ebit, interest_expense) ELSE NoRatio]

EfficiencyFields ==
    {"revenue", "total_assets", "cost_of_goods_sold", "inventory",
     "accounts_receivable"}

DaysInYear == 365

\* round(365 / receivables_turnover, 0), receivables_turnover being the
\* float revenue / accounts_receivable (both > 0)
RoundDays(revenue, accounts_receivable) ==
    IF IsTie(DaysInYear * accounts_receivable, revenue)
    THEN FloatRound(FloatUnder(DaysInYear, FloatDiv(revenue, accounts_receivable)), 1)
    ELSE Nearest(DaysInYear * accounts_receivable, revenue)

calculate_efficiency_ratios(rec) ==
    LET revenue == Float(rec, "revenue")
        total_assets == Float(rec, "total_assets")
        cogs == Float(rec, "cost_of_goods_sold")
        inventory == Float(rec, "inventory")
        accounts_receivable == Float(rec, "accounts_receivable")
    IN  IF FloatRaises(rec, EfficiencyFields)
        THEN [asset_turnover |-> NoRatio, inventory_turnover |-> NoRatio,
              receivables_turnover |-> NoRatio, days_sales_outstanding |-> NoRatio]
        ELSE [asset_turnover |->
                  IF total_assets > 0 THEN Round2(revenue, total_assets) ELSE NoRatio,
              inventory_turnover |->
                  IF inventory > 0 THEN Round2(cogs, inventory) ELSE NoRatio,
              receivables_turnover |->
                  IF accounts_receivable > 0 /\ revenue > 0
                  THEN Round2(revenue, accounts_receivable) ELSE NoRatio,
              days_sales_outstanding |->
                  IF accounts_receivable > 0 /\ revenue > 0
                  THEN Ratio(100 * RoundDays(revenue, accounts_receivable))
                  ELSE NoRatio]

\* The four families, as the tools combine them (all_ratios).
AllRatios(rec) ==
    [liquidity |-> calculate_liquidity_ratios(rec),
     profitability |-> calculate_profitability_ratios(rec),
     solvency |-> calculate_solvency_ratios(rec),
     efficiency |-> calculate_efficiency_ratios(rec)]

\* ------------------------------------------------------------ health score

\* if ratios.get('liquidity', {}).get('current_ratio'): a truth test, so
\* None and 0.0 both skip the band.
HealthLiquidityPoints_NoneIsLowestBand(cr) ==
    IF ~cr.null /\ cr.x >= 200 THEN 25
    ELSE IF ~cr.null /\ cr.x >= 150 THEN 20
    ELSE IF ~cr.null /\ cr.x >= 100 THEN 15
    ELSE IF ~cr.null /\ cr.x >= 50 THEN 10
    ELSE 5

HealthLiquidityPoints(cr) ==
    IF cr.null \/ cr.x = 0 THEN 0
    ELSE IF cr.x >= 200 THEN 25
    ELSE IF cr.x >= 150 THEN 20
    ELSE IF cr.x >= 100 THEN 15
    ELSE IF cr.x >= 50 THEN 10
    ELSE 5

\* if npm is not None
HealthMarginPoints(npm) ==
    IF npm.null THEN 0
    ELSE IF npm.x >= 1500 THEN 20
    ELSE IF npm.x >= 1000 THEN 15
    ELSE IF npm.x >= 500 THEN 10
    ELSE IF npm.x >= 0 THEN 5
    ELSE 0

HealthRoePoints(roe) ==
    IF roe.null THEN 0
    ELSE IF roe.x >= 2000 THEN 10
    ELSE IF roe.x >= 1500 THEN 8
    ELSE IF roe.x >= 1000 THEN 6
    ELSE IF roe.x >= 500 THEN 4
    ELSE IF roe.x >= 0 THEN 2
    ELSE 0

HealthLeveragePoints(dte) ==
    IF dte.null THEN 0
    ELSE IF dte.x <= 50 THEN 15
    ELSE IF dte.x <= 100 THEN 12
    ELSE IF dte.x <= 200 THEN 8
    ELSE IF dte.x <= 300 THEN 4
    ELSE 0

HealthCoveragePoints(ic) ==
    IF ic.null THEN 0
    ELSE IF ic.x >= 500 THEN 10
    ELSE IF ic.x >= 300 THEN 8
    ELSE IF ic.x >= 200 THEN 6
    ELSE IF ic.x >= 100 THEN 4
    ELSE 0

HealthTurnoverPoints(at) ==
    IF at.null THEN 0
    ELSE IF at.x >= 200 THEN 20
    ELSE IF at.x >= 150 THEN 15
    ELSE IF at.x >= 100 THEN 10
    ELSE IF at.x >= 50 THEN 5
    ELSE 0

\* score: the points of the six bands.
HealthPoints(ratios) ==
    HealthLiquidityPoints(ratios.liquidity.current_ratio)
    + HealthMarginPoints(ratios.profitability.net_profit_margin)
    + HealthRoePoints(ratios.profitability.roe)
    + HealthLeveragePoints(ratios.solvency.debt_to_equity)
    + HealthCoveragePoints(ratios.solvency.interest_coverage)
    + HealthTurnoverPoints(ratios.efficiency.asset_turnover)

\* max_score: every `max_score += ...` stands outside the test of its band.
HealthMaxScore == 25 + 20 + 10 + 15 + 10 + 20

\* int((score / max_score) * 100) if max_score > 0 else 0: the double
\* (s / 100) * 100 is below s for some scores s, and int() then gives s - 1.
FloatScore(score, max_score) ==
    FloatTrunc(FloatTimes(FloatDiv(score, max_score), 100))

\* The scores out of HealthMaxScore, worked out once.
ScoreOutOfMax == [score \in 0..HealthMaxScore |-> FloatScore(score, HealthMaxScore)]

FinalScore(score, max_score) ==
    IF max_score > 0
    THEN IF max_score = HealthMaxScore /\ score \in DOMAIN ScoreOutOfMax
         THEN ScoreOutOfMax[score]
         ELSE FloatScore(score, max_score)
    ELSE 0

HealthRating(final_score) ==
    IF final_score >= 80 THEN "Excellent"
    ELSE IF final_score >= 65 THEN "Good"
    ELSE IF final_score >= 50 THEN "Fair"
    ELSE IF final_score >= 35 THEN "Poor"
    ELSE "Critical"

calculate_financial_health_score(ratios) ==
    LET final_score == FinalScore(HealthPoints(ratios), HealthMaxScore)
    IN  [score |-> final_score, rating |-> HealthRating(final_score)]

\* ------------------------------------------------------------ credit score

\* if current_ratio: (a truth test)
CreditLiquidityPoints(cr) ==
    IF cr.null \/ cr.x = 0 THEN 0
    ELSE IF cr.x >= 200 THEN 25
    ELSE IF cr.x >= 150 THEN 20
    ELSE IF cr.x >= 100 THEN 15
    ELSE IF cr.x >= 75 THEN 10
    ELSE 5

CreditMarginPoints(nm) ==
    IF nm.null THEN 0
    ELSE IF nm.x >= 1000 THEN 20
    ELSE IF nm.x >= 500 THEN 15
    ELSE IF nm.x >= 200 THEN 10
    ELSE IF nm.x >= 0 THEN 5
    ELSE 0

CreditLeveragePoints(dte) ==
    IF dte.null THEN 0
    ELSE IF dte.x <= 50 THEN 20
    ELSE IF dte.x <= 100 THEN 15
    ELSE IF dte.x <= 200 THEN 10
    ELSE IF dte.x <= 300 THEN 5
    ELSE 0

\* if interest_coverage: (a truth test)
CreditCoveragePoints(ic) ==
    IF ic.null \/ ic.x = 0 THEN 0
    ELSE IF ic.x >= 500 THEN 15
    ELSE IF ic.x >= 300 THEN 12
    ELSE IF ic.x >= 200 THEN 8
    ELSE IF ic.x >= 100 THEN 4
    ELSE 0

CreditRoaPoints(roa) ==
    IF roa.null THEN 0
    ELSE IF roa.x >= 1500 THEN 20
    ELSE IF roa.x >= 1000 THEN 15
    ELSE IF roa.x >= 500 THEN 10
    ELSE IF roa.x >= 0 THEN 5
    ELSE 0

CreditScore(ratios) ==
    CreditLiquidityPoints(ratios.liquidity.current_ratio)
    + CreditMarginPoints(ratios.profitability.net_profit_margin)
    + CreditLeveragePoints(ratios.solvency.debt_to_equity)
    + CreditCoveragePoints(ratios.solvency.interest_coverage)
    + CreditRoaPoints(ratios.profitability.roa)

CreditRating(credit_score) ==
    IF credit_score >= 90 THEN "AAA"
    ELSE IF credit_score >= 80 THEN "AA"
    ELSE IF credit_score >= 70 THEN "A"
    ELSE IF credit_score >= 60 THEN "BBB"
    ELSE IF credit_score >= 50 THEN "BB"
    ELSE IF credit_score >= 40 THEN "B"
    ELSE IF credit_score >= 30 THEN "CCC"
    ELSE IF credit_score >= 20 THEN "CC"
    ELSE IF credit_score >= 10 THEN "C"
    ELSE "D"

RiskLevel(credit_score) ==
    IF credit_score >= 90 THEN "Minimal"
    ELSE IF credit_score >= 80 THEN "Very Low"
    ELSE IF credit_score >= 70 THEN "Low"
    ELSE IF credit_score >= 60 THEN "Moderate"
    ELSE IF credit_score >= 50 THEN "Elevated"
    ELSE IF credit_score >= 40 THEN "High"
    ELSE IF credit_score >= 30 THEN "Very High"
    ELSE IF credit_score >= 20 THEN "Substantial"
    ELSE IF credit_score >= 10 THEN "Extremely High"
    ELSE "Default Imminent"

\* "investment_grade": credit_score >= 60
InvestmentGrade_FromBB(credit_score) == credit_score >= 50

InvestmentGrade(credit_score) == credit_score >= 60

\* ------------------------------------------------------------ analysis tools

\* The tools below are modelled from the point where the record has been
\* fetched.  `if not financial_data`: the object without any key is falsy.
EmptyRecord == [f \in Keys |-> Absent]
IsEmpty(rec) == \A f \in Keys : rec[f].kind = "absent"

\* Truth test of a ratio: neither None nor 0.0.
Truthy(r) == ~r.null /\ r.x # 0

Opt(cond, text) == IF cond THEN <<text>> ELSE <<>>
OrDefault(list, text) == IF list = <<>> THEN <<text>> ELSE list

NoResult ==
    [ratios |->
         [liquidity |-> [current_ratio |-> NoRatio, quick_ratio |-> NoRatio,
                         cash_ratio |-> NoRatio],
          profitability |-> [gross_profit_margin |-> NoRatio,
                             operating_profit_margin |-> NoRatio,
                             net_profit_margin |-> NoRatio,
                             roa |-> NoRatio, roe |-> NoRatio],
          solvency |-> [debt_to_equity |-> NoRatio, debt_to_assets |-> NoRatio,
                        equity_ratio |-> NoRatio, interest_coverage |-> NoRatio],
          efficiency |-> [asset_turnover |-> NoRatio, inventory_turnover |-> NoRatio,
                          receivables_turnover |-> NoRatio,
                          days_sales_outstanding |-> NoRatio]],
     company_name |-> "", company_overview |-> "",
     health_score |-> 0, health_rating |-> "",
     credit_score |-> 0, credit_rating |-> "", risk_level |-> "",
     investment_grade |-> FALSE,
     relative_position |-> [liquidity |-> "", profitability |-> ""],
     status |-> <<>>,
     strengths |-> <<>>, weaknesses |-> <<>>, recommendations |-> <<>>]

Success(res) == [ok |-> TRUE, error |-> NoError, result |-> res]
Failure(e) == [ok |-> FALSE, error |-> e, result |-> NoResult]

\* The answer of analyze_financial_ratios from all_ratios and health.
RatioAnalysis(ratios, health) ==
    LET cr == ratios.liquidity.current_ratio
        npm == ratios.profitability.net_profit_margin
        dte == ratios.solvency.debt_to_equity
        strengths ==
            Opt(Truthy(cr) /\ cr.x >= 150, "Strong liquidity position")
            \o Opt(Truthy(npm) /\ npm.x >= 1000, "Excellent profit margins")
            \o Opt(Truthy(dte) /\ dte.x <= 100, "Conservative leverage")
        weaknesses ==
            Opt(Truthy(cr) /\ cr.x < 100,
                "Weak liquidity - may struggle with short-term obligations")
            \o Opt(~npm.null /\ npm.x < 0, "Negative profitability - operating at a loss")
            \o Opt(Truthy(dte) /\ dte.x > 200, "High leverage - elevated financial risk")
        recommendations ==
            Opt(Truthy(cr) /\ cr.x < 100, "Improve working capital management")
            \o Opt(~npm.null /\ npm.x < 500,
                   "Focus on cost reduction and margin improvement")
            \o Opt(Truthy(dte) /\ dte.x > 200, "Consider debt reduction strategies")
    IN  Success([NoResult EXCEPT
            !.ratios = ratios,
            !.health_score = health.score,
            !.health_rating = health.rating,
            !.strengths = OrDefault(strengths, "No significant strengths identified"),
            !.weaknesses = OrDefault(weaknesses, "No significant weaknesses identified"),
            !.recommendations =
                OrDefault(recommendations, "Maintain current financial discipline")])

\* analyze_financial_ratios, lines 898-972.
analyze_financial_ratios(rec) ==
    IF IsEmpty(rec)
    THEN Failure(ToolError(<<"Financial data not available for this company">>, 0, ""))
    ELSE RatioAnalysis(AllRatios(rec), calculate_financial_health_score(AllRatios(rec)))

\* The comparisons of generate_financial_report that read a ratio with
\* .get(name, 0): the key is always present, so None is compared with a
\* number and TypeError is raised (lines 1472, 1481, 1489, 1505-1516).
ReportComparesNone(ratios) ==
    \/ ratios.liquidity.current_ratio.null
    \/ ratios.profitability.roe.null
    \/ ratios.solvency.debt_to_equity.null
    \/ ratios.profitability.net_profit_margin.null

\* str(e) of the first TypeError met, in the order of the comparisons.
ReportTypeErrorText(ratios) ==
    IF ratios.liquidity.current_ratio.null
    THEN "'>=' not supported between instances of 'NoneType' and 'float'"
    ELSE IF ratios.profitability.roe.null
    THEN "'>=' not supported between instances of 'NoneType' and 'int'"
    ELSE IF ratios.solvency.debt_to_equity.null
    THEN "'<=' not supported between instances of 'NoneType' and 'float'"
    ELSE "'>=' not supported between instances of 'NoneType' and 'int'"

\* The profile as gather hands it to the report: None, a captured exception
\* or the empty object (all three fail `profile and not isinstance(profile,
\* Exception)`), an object with or without the key 'name', or a list that is
\* not empty.
NoProfile == [kind |-> "none", named |-> FALSE, name |-> ""]
ObjectProfile(name) == [kind |-> "object", named |-> TRUE, name |-> name]
UnnamedProfile == [kind |-> "object", named |-> FALSE, name |-> ""]
ListProfile == [kind |-> "list", named |-> FALSE, name |-> ""]

\* profile.get('name', 'Unknown') if profile and not isinstance(profile,
\* Exception) else 'Unknown', for a profile that has .get.
ProfileName(profile) ==
    IF profile.kind = "object" /\ profile.named THEN profile.name ELSE "Unknown"

\* profile if profile and not isinstance(profile, Exception) else {"note": ...}
ProfileOverview(profile) ==
    IF profile.kind = "none" THEN [note |-> "Profile data unavailable"] ELSE profile

\* str(e) of the AttributeError a list raises when .get is read from it.
ListHasNoGet == "'list' object has no attribute 'get'"

\* The report of generate_financial_report from the profile, all_ratios and
\* health.  The company name (line 1445) is read before the comparisons.
FinancialReport(profile, ratios, health) ==
    LET cr == ratios.liquidity.current_ratio
        npm == ratios.profitability.net_profit_margin
        roe == ratios.profitability.roe
        dte == ratios.solvency.debt_to_equity
    IN  IF profile.kind = "list"
        THEN Failure(ToolError(<<"Report generation failed: ">>, 0, ListHasNoGet))
        ELSE IF ReportComparesNone(ratios)
        THEN Failure(ToolError(<<"Report generation failed: ">>, 0,
                               ReportTypeErrorText(ratios)))
        ELSE Success([NoResult EXCEPT
            !.ratios = ratios,
            !.company_name = ProfileName(profile),
            !.company_overview = ProfileOverview(profile),
            !.health_score = health.score,
            !.health_rating = health.rating,
            !.status =
                << IF cr.x >= 150 THEN "Healthy"
                   ELSE IF cr.x >= 100 THEN "Adequate" ELSE "Concerning",
                   IF roe.x >= 1500 THEN "Strong"
                   ELSE IF roe.x >= 1000 THEN "Moderate" ELSE "Weak",
                   IF dte.x <= 100 THEN "Conservative"
                   ELSE IF dte.x <= 200 THEN "Moderate" ELSE "Aggressive" >>,
            !.strengths =
                Opt(cr.x >= 150, "Strong liquidity position")
                \o Opt(npm.x >= 1000, "Excellent profitability")
                \o Opt(Truthy(dte) /\ dte.x <= 100, "Conservative leverage"),
            !.weaknesses =
                Opt(cr.x < 100, "Liquidity concerns")
                \o Opt(npm.x < 0, "Operating losses")
                \o Opt(dte.x > 200, "High leverage"),
            !.recommendations =
                << IF health.score >= 65 THEN "Approved for investment"
                   ELSE IF health.score >= 50 THEN "Requires additional due diligence"
                   ELSE "Not recommended" >>])

\* generate_financial_report, lines 1420-1528, on the two answers of gather.
generate_financial_report(profile, rec) ==
    IF IsEmpty(rec)
    THEN Failure(ToolError(<<"Financial data not available">>, 0, ""))
    ELSE FinancialReport(profile, AllRatios(rec),
                         calculate_financial_health_score(AllRatios(rec)))

\* The assessment of assess_credit_risk from the three families it computes.
CreditAssessment(ratios) ==
    LET cr == ratios.liquidity.current_ratio
        npm == ratios.profitability.net_profit_margin
        dte == ratios.solvency.debt_to_equity
        ic == ratios.solvency.interest_coverage
        credit_score == CreditScore(ratios)
        risk_factors ==
            Opt(Truthy(cr) /\ cr.x < 75, "Critical liquidity shortage")
            \o Opt(~npm.null /\ npm.x < 0, "Operating losses detected")
            \o Opt(~dte.null /\ dte.x > 300, "Excessive leverage")
            \o Opt(Truthy(ic) /\ ic.x < 100, "Insufficient interest coverage")
        recommendations ==
            Opt(credit_score < 60,
                "Consider requiring additional collateral or guarantees")
            \o Opt(Truthy(cr) /\ cr.x < 100,
                   "Monitor cash flow closely - liquidity concerns")
            \o Opt(Truthy(dte) /\ dte.x > 200,
                   "High leverage - recommend debt restructuring")
    IN  Success([NoResult EXCEPT
            !.ratios = ratios,
            !.credit_score = credit_score,
            !.credit_rating = CreditRating(credit_score),
            !.risk_level = RiskLevel(credit_score),
            !.investment_grade = InvestmentGrade(credit_score),
            !.weaknesses =
                OrDefault(risk_factors, "No significant risk factors identified"),
            !.recommendations =
                OrDefault(recommendations, "Creditworthy - acceptable risk profile")])

\* assess_credit_risk, lines 1144-1279.
assess_credit_risk(rec) ==
    IF IsEmpty(rec)
    THEN Failure(ToolError(<<"Financial data not available for credit assessment">>, 0, ""))
    ELSE CreditAssessment([NoResult.ratios EXCEPT
                              !.liquidity = calculate_liquidity_ratios(rec),
                              !.profitability = calculate_profitability_ratios(rec),
                              !.solvency = calculate_solvency_ratios(rec)])

\* The manufacturing benchmarks of lines 1584-1589, which the tool uses for
\* every company: quartiles of the current ratio in hundredths, and of the
\* net profit margin in hundredths of a percent.
BenchmarkCurrentRatio == [p25 |-> 130, median |-> 170, p75 |-> 220]
BenchmarkNetMargin == [p25 |-> 300, median |-> 600, p75 |-> 1000]

\* The quartile label of a figure against a benchmark.
Quartile(x, b) ==
    IF x >= b.p75 THEN "Top Quartile"
    ELSE IF x >= b.median THEN "Above Average"
    ELSE IF x >= b.p25 THEN "Below Average"
    ELSE "Bottom Quartile"

\* The comparison of benchmark_against_industry from the four families:
\* `if company_cr:` is a truth test, `if company_npm is not None:` is not.
\* A position that is not stored is "".
Benchmark(ratios) ==
    LET cr == ratios.liquidity.current_ratio
        npm == ratios.profitability.net_profit_margin
        liquidity == IF Truthy(cr) THEN Quartile(cr.x, BenchmarkCurrentRatio) ELSE ""
        profitability == IF ~npm.null THEN Quartile(npm.x, BenchmarkNetMargin) ELSE ""
        advantages ==
            Opt(liquidity = "Top Quartile", "Superior liquidity position")
            \o Opt(profitability = "Top Quartile", "Excellent profit margins")
        improvements ==
            Opt(liquidity = "Bottom Quartile", "Improve working capital management")
            \o Opt(profitability = "Below Average", "Enhance operational efficiency")
            \o Opt(profitability = "Bottom Quartile",
                   "Critical: address profitability issues")
    IN  Success([NoResult EXCEPT
            !.ratios = ratios,
            !.relative_position = [liquidity |-> liquidity,
                                   profitability |-> profitability],
            !.strengths = OrDefault(advantages, "Performance in line with industry"),
            !.weaknesses = improvements])

\* benchmark_against_industry, lines 1564-1644.
benchmark_against_industry(rec) ==
    IF IsEmpty(rec)
    THEN Failure(ToolError(<<"Financial data not available">>, 0, ""))
    ELSE Benchmark(AllRatios(rec))

\* Sample records: a sound company, a strained one, and one with few fields.
HealthyRecord ==
    LET v == [current_assets |-> 400, current_liabilities |-> 200, inventory |-> 100,
              cash |-> 100, revenue |-> 400, cost_of_goods_sold |-> 200,
              operating_income |-> 100, net_income |-> 100, total_assets |-> 400,
              total_equity |-> 200, total_debt |-> 100, ebit |-> 400,
              interest_expense |-> 50, accounts_receivable |-> 100]
    IN  [f \in Keys |-> IF f \in Fields THEN Num(v[f]) ELSE Text]

StrainedRecord ==
    LET v == [current_assets |-> 50, current_liabilities |-> 100, inventory |-> 50,
              cash |-> 0, revenue |-> 1000, cost_of_goods_sold |-> 900,
              operating_income |-> -50, net_income |-> -100, total_assets |-> 400,
              total_equity |-> 50, total_debt |-> 200, ebit |-> 0,
              interest_expense |-> 50, accounts_receivable |-> 0]
    IN  [f \in Keys |-> IF f \in Fields THEN Num(v[f]) ELSE Text]

PartialRecord ==
    [EmptyRecord EXCEPT
        !["current_assets"] = Num(400), !["current_liabilities"] = Num(200),
        !["revenue"] = Num(400), !["net_income"] = Num(100),
        !["total_assets"] = Num(400), !["total_equity"] = Num(3200),
        !["total_debt"] = Num(16000)]

\* {"currency": "RON"}: an object that holds none of the fields.
BareRecord == [EmptyRecord EXCEPT !["currency"] = Text]

\* A fetched record and the function or tool applied to it.
IdleFin ==
    [pc |-> "fetched", record |-> EmptyRecord, edits |-> 0, tool |-> "none",
     error |-> NoError, result |-> NoResult]

Apply(name, out) ==
    /\ fin.pc = "fetched"
    /\ fin' = [fin EXCEPT !.pc = IF out.ok THEN "returned" ELSE "raised",
                          !.tool = name, !.error = out.error, !.result = out.result]
    /\ UNCHANGED <<sessVars, caller, call, confVars, trend, tool, cmp, taxid>>

\* The ratio functions and the health score called on the record directly.
HealthResult(ratios, health) ==
    Success([NoResult EXCEPT !.ratios = ratios,
                             !.health_score = health.score,
                             !.health_rating = health.rating])

CalculateHealthScore ==
    Apply("calculate_financial_health_score",
          HealthResult(AllRatios(fin.record),
                       calculate_financial_health_score(AllRatios(fin.record))))

AnalyzeFinancialRatios ==
    Apply("analyze_financial_ratios", analyze_financial_ratios(fin.record))

\* The profile answers the report is run with here: a named company, or a
\* list.
ProfileAnswers == {ObjectProfile("Alfa SRL"), ListProfile}

GenerateFinancialReport ==
    \E profile \in ProfileAnswers :
        Apply("generate_financial_report",
              generate_financial_report(profile, fin.record))

AssessCreditRisk ==
    Apply("assess_credit_risk", assess_credit_risk(fin.record))

\* The upstream's record differs from the sample in one more field.
SetField(f, v) ==
    /\ fin.pc = "fetched"
    /\ fin.edits < MaxEdits
    /\ fin.record[f] # v
    /\ fin' = [fin EXCEPT !.record[f] = v, !.edits = @ + 1]
    /\ UNCHANGED <<sessVars, caller, call, confVars, trend, tool, cmp, taxid>>

\* ============================================================ trend analysis

\* A period of a series: a financial record with its year.
PeriodFields == Keys \cup {"year"}
EmptyPeriod == [f \in PeriodFields |-> Absent]
IsEmptyPeriod(p) == \A f \in PeriodFields : p[f].kind = "absent"

\* One entry of the trends: yoy_growth_pct in hundredths of a percent,
\* cagr_pct a float in hundredths or None (the revenue entry alone has it).
NoMetric ==
    [present |-> FALSE, values |-> <<>>, yoy_growth_pct |-> 0,
     cagr_pct |-> NoRatio, trend |-> ""]

NoTrends ==
    [error |-> <<>>, revenue |-> NoMetric, net_income |-> NoMetric,
     total_assets |-> NoMetric]

\* [float(d.get(f, 0)) for d in historical_data]; FloatFails when a float()
\* in it raises.
Values(h, f) == [i \in 1..Len(h) |-> Float(h[i], f)]
FloatFails(h, f) == \E i \in 1..Len(h) : ValueRaises(Get(h[i], f))

\* str(e) of the errors the try block can meet: the TypeError of
\* float(None), the ValueError of float(s), the TypeError of round(cagr, 2).
FloatOfNoneText ==
    <<"float() argument must be a string or a real number, not 'NoneType'">>
FloatOfStrText(s) == <<"could not convert string to float: ">> \o Repr(s)
RoundOfComplexText == <<"type complex doesn't define __round__ method">>

\* The error of the first float() that raises.
FloatErrorOf(v) == IF v.kind = "null" THEN FloatOfNoneText ELSE FloatOfStrText(v.chars)
FloatErrorText(h, f) ==
    FloatErrorOf(Get(h[CHOOSE i \in 1..Len(h) :
                          /\ ValueRaises(Get(h[i], f))
                          /\ \A j \in 1..(i - 1) : ~ValueRaises(Get(h[j], f))], f))

\* yoy_growth = (latest - previous) / base * 100, rounded to 2 places; the
\* label tests the unrounded growth, whose sign is that of latest - previous.
Growth(values, base) ==
    LET latest == values[Len(values)]
        previous == values[Len(values) - 1]
    IN  [present |-> TRUE, values |-> values,
         yoy_growth_pct |-> RoundPct(latest - previous, base),
         cagr_pct |-> NoRatio,
         trend |-> IF latest > previous THEN "increasing" ELSE "decreasing"]

\* y - 1/2 <= 10000 * (latest / first) ** (1 / k), for y >= 1
RootReaches(y, latest, first, k) ==
    BigLeq(BigTimes(BigPow(BigOfInt(2 * y - 1), k), BigOfInt(first)),
           BigPowTimes(20000, k, latest))

\* The largest y in lo..hi that RootReaches, lo when none above it does.
RECURSIVE RootSearch(_, _, _, _, _)
RootSearch(lo, hi, latest, first, k) ==
    IF lo >= hi THEN lo
    ELSE LET mid == (lo + hi + 1) \div 2 IN
         IF RootReaches(mid, latest, first, k)
         THEN RootSearch(mid, hi, latest, first, k)
         ELSE RootSearch(lo, mid - 1, latest, first, k)

\* The root lies within one part in 10^12 of c / 20000, the rounding tie
\* between two hundredths of a percent: the doubles of the computation,
\* which follow the real numbers within a few parts in 10^16, may then fall
\* on either side of the tie.
NearTie(latest, first, k, c) ==
    LET million == <<0, 0, 1>>
        scale == BigTimes(million, million)
        whole == BigTimes(BigPow(BigMul(scale, 20000, 0), k), BigOfInt(latest))
        below == BigPow(BigTimes(BigSub(scale, <<1>>), BigOfInt(c)), k)
        above == BigPow(BigTimes(BigAdd(scale, <<1>>), BigOfInt(c)), k)
    IN  /\ BigLeq(BigTimes(below, BigOfInt(first)), whole)
        /\ BigLeq(whole, BigTimes(above, BigOfInt(first)))

\* 1 / k is rounded to a double y = m / 2^s before the power is taken:
\* 2^s - k * m, which is k * 2^s times the amount y falls short of 1 / k
\* (negative when y exceeds it, 0 when 1 / k is a double).
ExponentGap(k) ==
    LET y == FloatDiv(1, k)
        one == BigShl(<<1>>, y.s)
        ky == BigMul(y.m, k, 0)
    IN  IF BigLeq(ky, one) THEN BigToInt(BigSub(one, ky)) ELSE -BigToInt(BigSub(ky, one))

\* The largest e with b * 2^e <= a, for a >= b > 0.
RECURSIVE Log2Floor(_, _)
Log2Floor(a, b) == IF a \div 2 >= b THEN 1 + Log2Floor(a \div 2, b) ELSE 0

\* t + t^3 / 3 + t^5 / 5 + ... in billionths, from the term t^(2j+1) on;
\* term and t2 = t^2 are in billionths and t <= 1/3.
RECURSIVE AtanhSeries(_, _, _)
AtanhSeries(term, t2, j) ==
    IF term = <<>> THEN <<>>
    ELSE BigAdd(BigDivMod(term, 2 * j + 1).q,
                AtanhSeries(BigDropBillion(BigTimes(term, t2)), t2, j + 1))

\* ln(a / b) in billionths, for a >= b > 0: with a = b * 2^e * f and
\* 1 <= f < 2 it is e * ln 2 + 2 * atanh((f - 1) / (f + 1)).
LnRatio(a, b) ==
    LET e == Log2Floor(a, b)
        low == b * Pow(2, e)
        t == BigDivBig(BigMul(BigMul(BigOfInt(a - low), 1000, 0), 1000000, 0),
                       BigOfInt(a + low)).q
    IN  BigAdd(BigMul(<<181, 147, 693>>, e, 0),
               BigMul(AtanhSeries(t, BigDropBillion(BigTimes(t, t)), 0), 2, 0))

\* (latest / first) ** (1 / k) in units of 2^-90, for a root NearTie to
\* c / 20000: the quotient q is a double, its k-th root is taken by one step
\* of Newton's iteration from c / 20000, and the root is multiplied by
\* 1 - d * ln q, d being the amount the double of 1 / k falls short of 1 / k.
ScaledPower(latest, first, k, c) ==
    LET q == FloatDiv(latest, first)
        guess == BigDivMod(BigShl(BigOfInt(c), 90), 20000).q
        root == BigDivMod(
                    BigAdd(BigMul(guess, k - 1, 0),
                           BigDivBig(BigShl(q.m, 90 * k - q.s), BigPow(guess, k - 1)).q),
                    k).q
        gap == ExponentGap(k)
        ln == IF latest > first THEN LnRatio(latest, first) ELSE LnRatio(first, latest)
        shift == BigDivMod(
                     BigShr(BigDropBillion(BigTimes(BigMul(root, Magnitude(gap), 0), ln)),
                            FloatDiv(1, k).s).q,
                     k).q
    IN  IF gap = 0 THEN root
        ELSE IF (gap > 0) = (latest > first) THEN BigSub(root, shift)
        ELSE BigAdd(root, shift)

\* The doubles pow() can return for a power of v / 2^90.  C's pow is
\* accurate to within 0.54 units in the last place: it returns the double
\* below the power unless the power lies more than 0.54 of the way to the
\* next one, and the double above unless it lies less than 0.46 of the way.
PowerOutcomes(v) ==
    LET sh == BitLen(v) - 53
        down == BigShr(v, sh).q
        pos == BigMul(BigSub(v, BigShl(down, sh)), 50, 0)
        unit == BigShl(<<1>>, sh)
    IN  (IF BigLeq(pos, BigMul(unit, 27, 0))
         THEN {Double(FALSE, down, 90 - sh)} ELSE {})
        \cup (IF BigLeq(BigMul(unit, 23, 0), pos)
              THEN {Double(FALSE, BigAdd(down, <<1>>), 90 - sh)} ELSE {})

\* The values round((((latest / first) ** (1 / k)) - 1) * 100, 2) can take,
\* in hundredths, for first > 0, latest >= 0 and k >= 2.  Away from the
\* rounding ties it is the hundredth nearest to the real root; near a tie
\* the doubles are followed: the quotient, the power, the difference, the
\* product and the rounding of its exact value.
RootGrowth(latest, first, k) ==
    LET y == RootSearch(0, 10000 * (latest \div first + 1), latest, first, k)
        ties == {c \in {2 * y - 1, 2 * y + 1} :
                    c > 0 /\ NearTie(latest, first, k, c)}
    IN  IF ties = {} THEN {y - 10000}
        ELSE {FloatRound(FloatTimes(FloatMinus(r, 1), 100), 100) :
                 r \in PowerOutcomes(
                          ScaledPower(latest, first, k, CHOOSE c \in ties : TRUE))}

\* The periods the series below are made of.
Period(year, revenue, net_income, total_assets) ==
    [EmptyPeriod EXCEPT
        !["year"] = year, !["revenue"] = revenue, !["net_income"] = net_income,
        !["total_assets"] = total_assets, !["current_assets"] = Num(300),
        !["current_liabilities"] = Num(200), !["total_equity"] = Num(200)]

PeriodSamples ==
    { Period(Absent, Num(100), Num(50), Num(400)),
      Period(Absent, Num(200), Num(-50), Num(400)),
      Period(Absent, Num(400), Num(100), Num(200)),
      Period(Absent, Num(0), Num(0), Num(0)),
      Period(Absent, Num(-100), Num(50), Num(-100)),
      Period(Absent, JsonNull, Num(50), Num(400)),
      Period(Absent, Num(150), JsonNull, Num(400)),
      Period(Absent, Num(100), Num(100), JsonNull),
      Period(Absent, Text, Num(50), Num(400)),
      Period(Absent, JsonStr(<<"2", "0", "0">>), JsonStr(<<"1", "'", "5">>), Num(400)),
      [EmptyPeriod EXCEPT !["currency"] = Text],
      EmptyPeriod }

\* The revenues of these periods that a CAGR over a root is taken of, and
\* the roots of them: a root depends on the two revenues and the number of
\* years alone, so those of the samples are computed once.
SampleRevenues ==
    {Float(p, "revenue") :
        p \in {q \in PeriodSamples : ~ValueRaises(Get(q, "revenue"))}}
SampleRoots ==
    {[args |-> x, root |-> RootGrowth(x[1], x[2], x[3])] :
        x \in {r \in SampleRevenues : r > 0} \X {r \in SampleRevenues : r > 0}
                \X (2..(MaxPeriods - 1))}
SampleRootsOf(x) == UNION {t.root : t \in {u \in SampleRoots : u.args = x}}
KnownRoot(x) ==
    IF SampleRootsOf(x) # {} THEN SampleRootsOf(x) ELSE RootGrowth(x[1], x[2], x[3])
RootGrowthOf(latest, first, k) == KnownRoot(<<latest, first, k>>)

\* round(((latest / first) ** 1.0 - 1) * 100, 2) in hundredths: the power
\* leaves the quotient as it is.
RoundCagr(latest, first) ==
    IF Magnitude(latest - first) > 200000 \/ IsTie(10000 * (latest - first), first)
    THEN FloatRound(FloatTimes(FloatMinus(FloatDiv(latest, first), 1), 100), 100)
    ELSE Nearest(10000 * (latest - first), first)

\* cagr = (...) if revenues[0] > 0 else None
CagrDefined(values) == values[1] > 0

\* A negative float to a fractional power is a complex number, and
\* round(cagr, 2) raises TypeError on it.  With two periods the exponent is
\* 1.0 and the power stays a float.
CagrIsComplex(values) ==
    CagrDefined(values) /\ Len(values) > 2 /\ values[Len(values)] < 0

\* `round(cagr, 2) if cagr else None`: a truth test, so None and 0.0 both
\* give None; cagr is 0.0 exactly when latest / first is 1.0.
CagrIsFalsy(values) == ~CagrDefined(values) \/ values[Len(values)] = values[1]

\* The values of cagr_pct the computation can yield.
CagrOutcomes(values) ==
    LET latest == values[Len(values)]
        first == values[1]
        k == Len(values) - 1
    IN  IF CagrIsFalsy(values) THEN {NoRatio}
        ELSE IF k = 1 THEN {Ratio(RoundCagr(latest, first))}
        ELSE {Ratio(x) : x \in RootGrowthOf(latest, first, k)}

\* if len(revenues) >= 2 and revenues[-2] > 0 (total_assets alike)
HasPositiveBase(values) == values[Len(values) - 1] > 0

\* if len(net_incomes) >= 2 and net_incomes[-2] != 0
HasNonZeroBase(values) == values[Len(values) - 1] # 0

Abs(x) == IF x < 0 THEN -x ELSE x

\* trends['revenue'], cagr_pct being the value round(cagr, 2) yielded.
RevenueTrend(h, cagr_pct) ==
    LET revenues == Values(h, "revenue") IN
    IF HasPositiveBase(revenues)
    THEN [Growth(revenues, revenues[Len(revenues) - 1]) EXCEPT
              !.cagr_pct = cagr_pct]
    ELSE NoMetric

NetIncomeTrend(h) ==
    LET net_incomes == Values(h, "net_income") IN
    IF HasNonZeroBase(net_incomes)
    THEN Growth(net_incomes, Abs(net_incomes[Len(net_incomes) - 1]))
    ELSE NoMetric

AssetTrend(h) ==
    LET assets == Values(h, "total_assets") IN
    IF HasPositiveBase(assets)
    THEN Growth(assets, assets[Len(assets) - 1])
    ELSE NoMetric

InsufficientTrends ==
    [NoTrends EXCEPT !.error = <<"Insufficient historical data for trend analysis">>]

\* The revenue entry is built and round(cagr, 2) returns.
RoundsCagr(h) ==
    /\ Len(h) >= 2
    /\ ~FloatFails(h, "revenue")
    /\ HasPositiveBase(Values(h, "revenue"))
    /\ ~CagrIsComplex(Values(h, "revenue"))

\* The values cagr_pct can take over h, None when it is not computed.
CagrChoices(h) ==
    IF RoundsCagr(h) THEN CagrOutcomes(Values(h, "revenue")) ELSE {NoRatio}

\* calculate_trend_analysis: the three entries in turn; the first error
\* ends the try block, keeping the entries already stored.  cagr_pct is
\* one of CagrChoices(h).
calculate_trend_analysis(h, cagr_pct) ==
    IF Len(h) < 2 THEN InsufficientTrends
    ELSE IF FloatFails(h, "revenue")
    THEN [NoTrends EXCEPT !.error = FloatErrorText(h, "revenue")]
    ELSE IF HasPositiveBase(Values(h, "revenue")) /\ CagrIsComplex(Values(h, "revenue"))
    THEN [NoTrends EXCEPT !.error = RoundOfComplexText]
    ELSE IF FloatFails(h, "net_income")
    THEN [NoTrends EXCEPT !.revenue = RevenueTrend(h, cagr_pct),
                          !.error = FloatErrorText(h, "net_income")]
    ELSE IF FloatFails(h, "total_assets")
    THEN [NoTrends EXCEPT !.revenue = RevenueTrend(h, cagr_pct),
                          !.net_income = NetIncomeTrend(h),
                          !.error = FloatErrorText(h, "total_assets")]
    ELSE [NoTrends EXCEPT !.revenue = RevenueTrend(h, cagr_pct),
                          !.net_income = NetIncomeTrend(h),
                          !.total_assets = AssetTrend(h)]

\* The decoded body of the financial endpoint: a list of periods, or one
\* object (the periods then hold that object alone).
ListDoc(periods) == [isList |-> TRUE, periods |-> periods]
ObjectDoc(p) == [isList |-> FALSE, periods |-> <<p>>]

\* if not financial_data: the empty list and the object without any key are
\* falsy.
DocFalsy(doc) ==
    IF doc.isList THEN doc.periods = <<>> ELSE IsEmptyPeriod(doc.periods[1])

\* x.get('year', 0), for the years of this module: a whole number or none.
YearKey(p) ==
    CASE p["year"].kind = "num" -> p["year"].num
      [] p["year"].kind = "absent" -> 0

\* sorted(financial_data, key=lambda x: x.get('year', 0)): ascending and
\* stable, so a period goes behind those whose year is not greater.
RECURSIVE InsertByYear(_, _, _)
InsertByYear(perm, j, h) ==
    IF perm = <<>> THEN <<j>>
    ELSE IF YearKey(h[Head(perm)]) <= YearKey(h[j])
         THEN <<Head(perm)>> \o InsertByYear(Tail(perm), j, h)
         ELSE <<j>> \o perm

RECURSIVE YearOrder(_, _)
YearOrder(h, n) ==
    IF n = 0 THEN <<>> ELSE InsertByYear(YearOrder(h, n - 1), n, h)

SortedByYear(h) == [i \in 1..Len(h) |-> h[YearOrder(h, Len(h))[i]]]

\* ratio_trends[str(year)] = {...}: one entry per distinct year (an absent
\* year under 'unknown'), that of the last period carrying the year.
RatioEvolution(h) ==
    [y \in {h[i]["year"] : i \in 1..Len(h)} |->
        LET i == CHOOSE i \in 1..Len(h) :
                    /\ h[i]["year"] = y
                    /\ \A j \in (i + 1)..Len(h) : h[j]["year"] # y
        IN  [current_ratio |-> calculate_liquidity_ratios(h[i]).current_ratio,
             net_profit_margin |-> calculate_profitability_ratios(h[i]).net_profit_margin,
             roe |-> calculate_profitability_ratios(h[i]).roe]]

\* trends.get(name, {}).get('trend', 'unknown')
TrendLabel(m) == IF m.present THEN m.trend ELSE "unknown"

\* abs(g) of a growth figure of h hundredths: round(x, 2) returned the
\* double nearest to h / 100.
AbsGrowth(h) == FloatDiv(Abs(h), 100)

\* abs(profit_growth) > abs(revenue_growth or 0) + 10, the sum being the
\* double the addition rounds to.
OutpacesRevenue(profit_growth, revenue_growth) ==
    FloatExceeds(AbsGrowth(profit_growth), FloatPlus(AbsGrowth(revenue_growth), 10))

\* The insights of lines 1360-1374, from the rounded growth figures; a
\* growth that is absent or 0.0 fails the truth tests.
Insights(trends) ==
    LET revenue_growth == trends.revenue.yoy_growth_pct
        profit_growth == trends.net_income.yoy_growth_pct
    IN  OrDefault(
            (IF revenue_growth > 1500
             THEN <<"Strong revenue growth momentum">>
             ELSE IF revenue_growth < 0
             THEN <<"Revenue decline - investigate market conditions">>
             ELSE <<>>)
            \o (IF profit_growth # 0 /\ OutpacesRevenue(profit_growth, revenue_growth)
                THEN IF profit_growth > 0
                     THEN <<"Profit growing faster than revenue - improving efficiency">>
                     ELSE <<"Profit declining faster than revenue - margin compression">>
                ELSE <<>>),
            "Stable financial trajectory")

NoAnalysis ==
    [periods_analyzed |-> 0, trends |-> NoTrends, ratio_evolution |-> <<>>,
     summary |-> [revenue_trend |-> "", profitability_trend |-> "",
                  asset_growth |-> ""],
     insights |-> <<>>]

TrendSuccess(res) == [ok |-> TRUE, error |-> NoError, result |-> res]
TrendFailure(e) == [ok |-> FALSE, error |-> e, result |-> NoAnalysis]

\* if len(historical_data) < 2
TooFewPeriods_OnlyEmpty(n) == n < 1

TooFewPeriods(n) == n < 2

\* historical_data of lines 1317-1320: the list sorted by year, or the
\* single object in a list.
HistoricalData(doc) == IF doc.isList THEN SortedByYear(doc.periods) ELSE doc.periods

\* analyze_financial_trends, lines 1313-1379, from the fetched body on.
\* cagr_pct is one of CagrChoices(HistoricalData(doc)).
analyze_financial_trends(doc, cagr_pct) ==
    IF DocFalsy(doc)
    THEN TrendFailure(ToolError(<<"Financial data not available">>, 0, ""))
    ELSE
    LET historical_data == HistoricalData(doc)
        trends == calculate_trend_analysis(historical_data, cagr_pct)
    IN  IF TooFewPeriods(Len(historical_data))
        THEN TrendFailure(ToolError(
                 <<"Insufficient historical data for trend analysis. ",
                   "At least 2 years of data required.">>, 0, ""))
        ELSE TrendSuccess(
                 [periods_analyzed |-> Len(historical_data),
                  trends |-> trends,
                  ratio_evolution |-> RatioEvolution(historical_data),
                  summary |-> [revenue_trend |-> TrendLabel(trends.revenue),
                               profitability_trend |-> TrendLabel(trends.net_income),
                               asset_growth |-> TrendLabel(trends.total_assets)],
                  insights |-> Insights(trends)])

\* A fetched body and the function or tool applied to it.
IdleTrend ==
    [pc |-> "fetched", doc |-> ListDoc(<<>>), tool |-> "none",
     error |-> NoError, result |-> NoAnalysis]

ApplyTrend(name, out) ==
    /\ trend.pc = "fetched"
    /\ trend' = [trend EXCEPT !.pc = IF out.ok THEN "returned" ELSE "raised",
                              !.tool = name, !.error = out.error,
                              !.result = out.result]
    /\ UNCHANGED <<sessVars, caller, call, confVars, tool, cmp, taxid, fin>>

\* calculate_trend_analysis called on the list as it stands.
CalculateTrendAnalysis ==
    /\ trend.doc.isList
    /\ \E cagr_pct \in CagrChoices(trend.doc.periods) :
          ApplyTrend("calculate_trend_analysis",
                     TrendSuccess([NoAnalysis EXCEPT
                         !.periods_analyzed = Len(trend.doc.periods),
                         !.trends = calculate_trend_analysis(trend.doc.periods,
                                                             cagr_pct)]))

AnalyzeFinancialTrends ==
    \E cagr_pct \in CagrChoices(HistoricalData(trend.doc)) :
        ApplyTrend("analyze_financial_trends",
                   analyze_financial_trends(trend.doc, cagr_pct))

\* ============================================================ comparison tool

\* success_response: the envelope.  The timestamp is the clock's reading,
\* kept as one token.
success_response(data, message) ==
    [status |-> "success", message |-> message, data |-> data,
     timestamp |-> "utcnow"]

NoEnvelope == [status |-> "", message |-> <<>>, data |-> "", timestamp |-> ""]

\* What escapes a tool: nothing, or an exception of some type.
NoException == [type |-> "none", error |-> NoError]
Raised(type, e) == [type |-> type, error |-> e]

NoComparison ==
    [companies_compared |-> 0, by_revenue |-> <<>>, by_financial_health |-> <<>>,
     revenue_stats |-> [mean |-> 0, median |-> 0, min |-> 0, max |-> 0],
     health_stats |-> [mean |-> 0, median |-> 0]]

IdleCompare ==
    [pc |-> "idle", tax_ids |-> <<>>, cleaned_ids |-> <<>>,
     companies |-> <<>>, companies_data |-> <<>>, result |-> NoComparison,
     message |-> <<>>, error |-> NoError]

\* if not tax_ids or len(tax_ids) < 2 ... if len(tax_ids) > 10 ...
\* The ToolError of the size checks, or NoError.
CompareSizeError_NoMaximum(ids) ==
    IF Len(ids) < MinCompare
    THEN ToolError(<<"Provide at least 2 companies to compare">>, 0, "")
    ELSE NoError

CompareSizeError(ids) ==
    IF Len(ids) < MinCompare
    THEN ToolError(<<"Provide at least 2 companies to compare">>, 0, "")
    ELSE IF Len(ids) > MaxCompare
         THEN ToolError(<<"Maximum 10 companies allowed for comparison">>, 0, "")
         ELSE NoError

\* cleaned_ids = [validate_tax_id(tid) for tid in tax_ids]: the error of the
\* first id that fails, or NoError.
RECURSIVE FirstValidationError(_)
FirstValidationError(ids) ==
    IF ids = <<>> THEN NoError
    ELSE IF ~validate_tax_id(Head(ids)).ok
         THEN validate_tax_id(Head(ids)).error
         ELSE FirstValidationError(Tail(ids))

CleanedIds(ids) == [i \in 1..Len(ids) |-> validate_tax_id(ids[i]).value]

\* The coroutine objects of lines 1015-1018, wrapped in tasks by gather:
\* task 2k-1 fetches the profile of company k, task 2k its financial data.
ScheduledCall == [IdleCall EXCEPT !.pc = "scheduled"]
FanOut(n) == [r \in Tasks |-> IF r <= 2 * n THEN ScheduledCall ELSE IdleCall]

\* The tool is invoked: lines 1005-1020 up to the suspension in gather.
CompareStart(ids) ==
    /\ cmp.pc = "idle"
    /\ IF CompareSizeError(ids) # NoError
       THEN /\ cmp' = [cmp EXCEPT !.pc = "raised", !.tax_ids = ids,
                                  !.error = CompareSizeError(ids)]
            /\ UNCHANGED call
       ELSE IF FirstValidationError(ids) # NoError
       THEN /\ cmp' = [cmp EXCEPT !.pc = "raised", !.tax_ids = ids,
                                  !.error = FirstValidationError(ids)]
            /\ UNCHANGED call
       ELSE /\ cmp' = [cmp EXCEPT !.pc = "gathering", !.tax_ids = ids,
                                  !.cleaned_ids = CleanedIds(ids)]
            /\ call' = FanOut(Len(ids))
    /\ UNCHANGED <<sessVars, caller, confVars, trend, tool, taxid, fin>>

\* The event loop gives the tasks of gather their first step in the order
\* they were created, and polls for answers only after that.
FirstReady(r) == \A q \in 1..(r - 1) : call[q].pc # "scheduled"
AllStarted == \A q \in Tasks : call[q].pc # "scheduled"

\* make_targetare_request: the key test, then make_request_with_retry with
\* the default budget.
TargetareStart(r) ==
    /\ call[r].pc = "scheduled"
    /\ FirstReady(r)
    /\ IF targetare_key
       THEN /\ get_session
            /\ call' = [call EXCEPT ![r] =
                          LoopHead([IdleCall EXCEPT !.max_retries = MAX_RETRIES,
                                                    !.session = SessionAfterGet], closed)]
       ELSE /\ call' = [call EXCEPT ![r] =
                          Finish(IdleCall, Raise(ToolError(
                              <<"Targetare API key not configured">>, 0, "")))]
            /\ UNCHANGED sessVars
    /\ UNCHANGED <<caller, confVars, trend, tool, cmp, taxid, fin>>

\* The JSON documents behind the bodies the upstream serves: body_a is a
\* named company with the figures of HealthyRecord, body_b an unnamed one with
\* those of StrainedRecord, body_null and body_text unnamed ones whose
\* revenue is null or the string "RON", body_empty the empty object and
\* body_list a list of two periods.
NullRevenueRecord == [HealthyRecord EXCEPT !["revenue"] = JsonNull]
TextRevenueRecord == [StrainedRecord EXCEPT !["revenue"] = Text]

BodyIsList(b) == b = "body_list"

\* The object a body decodes to.
Document(b) ==
    CASE b = "body_a" -> HealthyRecord
      [] b = "body_b" -> StrainedRecord
      [] b = "body_null" -> NullRevenueRecord
      [] b = "body_text" -> TextRevenueRecord
      [] b = "body_empty" -> EmptyRecord

\* The body as the answer of the profile endpoint.
Profile(b) ==
    CASE BodyIsList(b) -> ListProfile
      [] b = "body_a" -> ObjectProfile("Alfa SRL")
      [] b = "body_empty" -> NoProfile
      [] OTHER -> UnnamedProfile

\* company_data.get("name", "Unknown")
CompanyName(b) == ProfileName(Profile(b))

\* Truth value of a decoded body: the empty object is falsy, a list that
\* holds something is not.
BodyTruthy(b) == b # "body_empty"

\* gather(*tasks, return_exceptions=True) returns when every task is done.
GatherDone_FirstError(n) ==
    \/ \A r \in 1..(2 * n) : call[r].pc \in {"returned", "raised"}
    \/ \E r \in 1..(2 * n) : call[r].pc = "raised"

GatherDone(n) == \A r \in 1..(2 * n) : call[r].pc \in {"returned", "raised"}

\* results[i] if not isinstance(results[i], Exception) else None, then the
\* truth test of `if financial_data and company_data`.
Fetched(c) ==
    /\ c.outcome.type = "return"
    /\ c.outcome.value # NoneValue
    /\ BodyTruthy(c.outcome.value)

\* The companies kept by lines 1023-1047, as positions in cleaned_ids.
KeptCompanies(n) ==
    SelectSeq([k \in 1..n |-> k],
              LAMBDA k : Fetched(call[2 * k]) /\ Fetched(call[2 * k - 1]))

\* The dictionary appended to companies_data.
CompanyData(tax_id, company_name, financial_data, ratios, health) ==
    [tax_id |-> tax_id,
     company_name |-> company_name,
     revenue |-> Get(financial_data, "revenue"),
     net_income |-> Get(financial_data, "net_income"),
     total_assets |-> Get(financial_data, "total_assets"),
     ratios |-> ratios,
     health_score |-> health.score,
     health_rating |-> health.rating]

\* The entry appended to companies_data, from the two decoded bodies.
Entry(tax_id, company_body, financial_body) ==
    CompanyData(tax_id, CompanyName(company_body), Document(financial_body),
                AllRatios(Document(financial_body)),
                calculate_financial_health_score(AllRatios(Document(financial_body))))

\* The entry of the company at position k: results[i] and results[i+1].
CompanyEntry(k, ids) ==
    Entry(ids[k], call[2 * k - 1].outcome.value, call[2 * k].outcome.value)

\* sorted(..., reverse=True) is stable: an element stays ahead of a later
\* one unless its key is lower.
StaysAhead_OnlyIfHigher(earlier, later) == earlier > later

StaysAhead(earlier, later) == earlier >= later

RECURSIVE InsertByKey(_, _, _)
InsertByKey(perm, j, keys) ==
    IF perm = <<>> THEN <<j>>
    ELSE IF StaysAhead(keys[Head(perm)], keys[j])
         THEN <<Head(perm)>> \o InsertByKey(Tail(perm), j, keys)
         ELSE <<j>> \o perm

\* The positions 1..n of keys in descending order of key.
RECURSIVE SortedDesc(_, _)
SortedDesc(keys, n) ==
    IF n = 0 THEN <<>> ELSE InsertByKey(SortedDesc(keys, n - 1), n, keys)

RECURSIVE SumSeq(_)
SumSeq(xs) == IF xs = <<>> THEN 0 ELSE Head(xs) + SumSeq(Tail(xs))

\* median(xs) as a fraction over 2, xs non-empty.
TwiceMedian(xs) ==
    LET n == Len(xs)
        o == SortedDesc(xs, n)
    IN  IF n % 2 = 1 THEN 2 * xs[o[(n + 1) \div 2]]
        ELSE xs[o[n \div 2]] + xs[o[n \div 2 + 1]]

\* statistics["revenue"]: mean and median rounded to 2 places (in hundredths),
\* min and max; all 0 when no revenue is positive.  std_dev, a square root,
\* is left out.
RevenueStats(data) ==
    LET all == [i \in 1..Len(data) |-> data[i].revenue.num]
        revenues == SelectSeq(all, LAMBDA x : x > 0)
        o == SortedDesc(revenues, Len(revenues))
    IN  IF revenues = <<>>
        THEN [mean |-> 0, median |-> 0, min |-> 0, max |-> 0]
        ELSE [mean |-> RoundDiv(SumSeq(revenues), Len(revenues), 100),
              median |-> RoundDiv(TwiceMedian(revenues), 2, 100),
              min |-> revenues[o[Len(o)]],
              max |-> revenues[o[1]]]

\* statistics["health_score"]: mean and median rounded to 1 place (in tenths).
HealthStats(data) ==
    LET health_scores == [i \in 1..Len(data) |-> data[i].health_score]
    IN  [mean |-> RoundDiv(SumSeq(health_scores), Len(health_scores), 10),
         median |-> RoundDiv(TwiceMedian(health_scores), 2, 10)]

\* rankings["by_revenue"] and rankings["by_financial_health"]
ByRevenue(data) ==
    LET o == SortedDesc([i \in 1..Len(data) |-> data[i].revenue.num], Len(data))
    IN  [i \in 1..Len(data) |->
            [rank |-> i, tax_id |-> data[o[i]].tax_id,
             name |-> data[o[i]].company_name, key |-> data[o[i]].revenue.num]]

ByFinancialHealth(data) ==
    LET o == SortedDesc([i \in 1..Len(data) |-> data[i].health_score], Len(data))
    IN  [i \in 1..Len(data) |->
            [rank |-> i, tax_id |-> data[o[i]].tax_id,
             name |-> data[o[i]].company_name, key |-> data[o[i]].health_score]]

\* c['revenue'] > 0 raises TypeError when a kept record holds null or a
\* string as its revenue; str(e) names the type of the first such revenue.
RevenueTestRaises(data) ==
    \E i \in 1..Len(data) : data[i].revenue.kind \in {"null", "str"}
RevenueTestText(data) ==
    IF data[CHOOSE i \in 1..Len(data) :
                /\ data[i].revenue.kind \in {"null", "str"}
                /\ \A j \in 1..(i - 1) : data[j].revenue.kind = "num"].revenue.kind = "null"
    THEN "'>' not supported between instances of 'NoneType' and 'int'"
    ELSE "'>' not supported between instances of 'str' and 'int'"

Comparison(data) ==
    [companies_compared |-> Len(data),
     by_revenue |-> ByRevenue(data),
     by_financial_health |-> ByFinancialHealth(data),
     revenue_stats |-> RevenueStats(data),
     health_stats |-> HealthStats(data)]

\* calculate_liquidity_ratios(financial_data) and company_data.get read .get
\* from the two bodies of a kept company: a list raises AttributeError, which
\* no ratio function catches.
HasNoGet(k) ==
    \/ BodyIsList(call[2 * k].outcome.value)
    \/ BodyIsList(call[2 * k - 1].outcome.value)

\* Lines 1049-1112 on the companies kept and their entries.
CompareKept(kept, data) ==
    IF Len(kept) < MinCompare
    THEN cmp' = [cmp EXCEPT !.pc = "raised", !.error = ToolError(
             <<"Could not retrieve financial data for enough companies">>, 0, "")]
    ELSE IF RevenueTestRaises(data)
    THEN cmp' = [cmp EXCEPT !.pc = "raised", !.error = ToolError(
             <<"Comparison failed: ">>, 0, RevenueTestText(data))]
    ELSE cmp' = [cmp EXCEPT !.pc = "returned", !.companies = kept,
                            !.companies_data = data,
                            !.result = Comparison(data),
                            !.message = <<"Compared ", ToString(Len(data)),
                                          " companies successfully">>]

\* The envelope the comparison returns (line 1101).
CompareEnvelope == success_response(cmp.result, cmp.message)

\* gather returns once every task has finished; lines 1022-1112.
CompareGather ==
    /\ cmp.pc = "gathering"
    /\ GatherDone(Len(cmp.tax_ids))
    /\ LET kept == KeptCompanies(Len(cmp.tax_ids))
       IN  IF \E i \in 1..Len(kept) : HasNoGet(kept[i])
           THEN cmp' = [cmp EXCEPT !.pc = "raised", !.error = ToolError(
                    <<"Comparison failed: ">>, 0, ListHasNoGet)]
           ELSE CompareKept(kept, [i \in 1..Len(kept) |->
                                      CompanyEntry(kept[i], cmp.cleaned_ids)])
    /\ UNCHANGED <<sessVars, caller, call, confVars, trend, tool, taxid, fin>>

\* ============================================================ tools

\* What a tool call ends with: the envelope it returns, or the ToolError it
\* raises.  No other exception type leaves a tool: each body is wrapped in
\* `except ToolError: raise / except Exception as e: raise ToolError(...)`,
\* and the tests ahead of the try blocks raise ToolError themselves.
Returns(data, message) ==
    [raised |-> NoException, envelope |-> success_response(data, message)]
Throws(e) == [raised |-> Raised("ToolError", e), envelope |-> NoEnvelope]

\* if not data: None and the empty object are falsy.
NoData(v) == v = NoneValue \/ ~BodyTruthy(v)

\* get_company_financials, lines 822-825, on what the request returned.
get_company_financials(data, tax_id) ==
    IF NoData(data)
    THEN Throws(ToolError(<<"No financial data found for tax ID: ">> \o tax_id, 0, ""))
    ELSE Returns(data, <<"Financial data retrieved for CUI ">> \o tax_id)

\* get_company_profile, lines 856-859, on what the request returned.
get_company_profile(data, tax_id) ==
    IF NoData(data)
    THEN Throws(ToolError(<<"No company data found for tax ID: ">> \o tax_id, 0, ""))
    ELSE Returns(data, <<"Company profile retrieved for CUI ">> \o tax_id)

\* The message of the envelope an analysis tool returns with its result.
Message(name, res) ==
    CASE name = "analyze_financial_ratios" ->
             <<"Financial ratio analysis completed - Health Score: ",
               ToString(res.health_score), "/100 (", res.health_rating, ")">>
      [] name = "analyze_financial_trends" ->
             <<"Trend analysis completed for ", ToString(res.periods_analyzed),
               " periods">>
      [] name = "assess_credit_risk" ->
             <<"Credit assessment: ", res.credit_rating, " rating (",
               res.risk_level, " risk)">>
      [] name = "generate_financial_report" ->
             <<"Comprehensive financial report generated - Health Score: ",
               ToString(res.health_score), "/100">>
      [] name = "benchmark_against_industry" ->
             <<"Industry benchmarking analysis completed">>

\* The prefix `except Exception as e` puts before str(e).
FailurePrefix(name) ==
    CASE name \in {"analyze_financial_ratios", "analyze_financial_trends"} ->
             "Analysis failed: "
      [] name = "assess_credit_risk" -> "Assessment failed: "
      [] name = "generate_financial_report" -> "Report generation failed: "
      [] name = "benchmark_against_industry" -> "Benchmarking failed: "

\* The tool's ending from the outcome of its analysis.
Answer(name, out) ==
    IF out.ok THEN Returns(out.result, Message(name, out.result))
    ELSE Throws(out.error)

\* A ratio function reads .get from what was fetched: on a list that raises
\* AttributeError, which reaches the tool's `except Exception`.
ListFailure(name) == Throws(ToolError(<<FailurePrefix(name)>>, 0, ListHasNoGet))

\* The object a tool reads its figures from; None fails `if not
\* financial_data` as the empty object does.
ReadRecord(v) == IF v = NoneValue THEN EmptyRecord ELSE Document(v)

\* A record as a period of a series.
AsPeriod(rec) == [f \in PeriodFields |-> IF f \in Keys THEN rec[f] ELSE Absent]

\* The periods of body_list, the later year first.
ListedPeriods ==
    << [AsPeriod(StrainedRecord) EXCEPT !["year"] = Num(2022)],
       [AsPeriod(HealthyRecord) EXCEPT !["year"] = Num(2021)] >>

\* What the trend tool fetched, as a list of periods or one object.
TrendDoc(v) ==
    IF BodyIsList(v) THEN ListDoc(ListedPeriods) ELSE ObjectDoc(AsPeriod(ReadRecord(v)))

\* The endings of a tool that awaits one request, lines 818-831, 852-865,
\* 892-978 and 1313-1385: a ToolError of the request passes `except
\* ToolError: raise`.  The trend tool has one ending per outcome of the CAGR.
FetchEndings(name, tax_id, outcome) ==
    IF outcome.type = "raise" THEN {Throws(outcome.error)}
    ELSE CASE name = "get_company_financials" ->
                  {get_company_financials(outcome.value, tax_id)}
           [] name = "get_company_profile" ->
                  {get_company_profile(outcome.value, tax_id)}
           [] name = "analyze_financial_ratios" ->
                  {IF BodyIsList(outcome.value) THEN ListFailure(name)
                   ELSE Answer(name, analyze_financial_ratios(ReadRecord(outcome.value)))}
           [] name = "analyze_financial_trends" ->
                  {Answer(name, analyze_financial_trends(TrendDoc(outcome.value), cagr_pct)) :
                      cagr_pct \in CagrChoices(HistoricalData(TrendDoc(outcome.value)))}

\* profile, financials = await asyncio.gather(..., return_exceptions=True):
\* a request that raised hands over its exception.
\* `not financials or isinstance(financials, Exception)`
FinancialsMissing(c) == c.outcome.type = "raise" \/ NoData(c.outcome.value)

\* The record the tool goes on with.
FinancialRecord(c) == IF FinancialsMissing(c) THEN EmptyRecord ELSE Document(c.outcome.value)

\* The profile as the report reads it.
ProfileAnswer(c) ==
    IF c.outcome.type = "raise" \/ c.outcome.value = NoneValue THEN NoProfile
    ELSE Profile(c.outcome.value)

\* The ending of a tool that gathers the profile and the financial data,
\* lines 1144-1285, 1420-1528 and 1564-1650.
GatherEnding(name, profile, financials) ==
    IF ~FinancialsMissing(financials) /\ BodyIsList(financials.outcome.value)
    THEN ListFailure(name)
    ELSE CASE name = "assess_credit_risk" ->
                  Answer(name, assess_credit_risk(FinancialRecord(financials)))
           [] name = "generate_financial_report" ->
                  Answer(name, generate_financial_report(ProfileAnswer(profile),
                                                         FinancialRecord(financials)))
           [] name = "benchmark_against_industry" ->
                  Answer(name, benchmark_against_industry(FinancialRecord(financials)))

FetchTools ==
    {"get_company_financials", "get_company_profile", "analyze_financial_ratios",
     "analyze_financial_trends"}
GatherTools ==
    {"assess_credit_risk", "generate_financial_report", "benchmark_against_industry"}

NoSearchData == [has_items |-> FALSE, items |-> <<>>]

NoSearch == [company_name |-> NotAString, county |-> <<>>, limit_results |-> 0]

IdleTool ==
    [pc |-> "idle", name |-> "none", tax_id |-> NotAString, cleaned |-> <<>>,
     search |-> NoSearch, answer |-> StatusResp(0, ""), data |-> NoSearchData,
     raised |-> NoException, envelope |-> NoEnvelope]

Conclude(t, out) ==
    [t EXCEPT !.pc = IF out.raised = NoException THEN "returned" ELSE "raised",
              !.raised = out.raised, !.envelope = out.envelope]

NoCallPending ==
    /\ tool.pc = "idle"
    /\ cmp.pc = "idle"
    /\ \A r \in Tasks : call[r].pc = "idle"

\* A tool is called with a tax id and runs up to its first suspension:
\* validate_tax_id; then, in a tool of one request, the key test of
\* make_targetare_request, get_session and the first attempt, and in a tool
\* that gathers, the creation of the two tasks.
CallTool(name, t) ==
    /\ NoCallPending
    /\ IF ~validate_tax_id(t).ok
       THEN /\ tool' = Conclude([tool EXCEPT !.name = name, !.tax_id = t],
                                Throws(validate_tax_id(t).error))
            /\ UNCHANGED <<sessVars, call>>
       ELSE IF name \in GatherTools
       THEN /\ tool' = [tool EXCEPT !.pc = "gathering", !.name = name, !.tax_id = t,
                                    !.cleaned = validate_tax_id(t).value]
            /\ call' = FanOut(1)
            /\ UNCHANGED sessVars
       ELSE IF ~targetare_key
       THEN /\ tool' = Conclude([tool EXCEPT !.name = name, !.tax_id = t,
                                             !.cleaned = validate_tax_id(t).value],
                                Throws(ToolError(
                                    <<"Targetare API key not configured">>, 0, "")))
            /\ UNCHANGED <<sessVars, call>>
       ELSE /\ get_session
            /\ call' = [call EXCEPT ![1] =
                          LoopHead([IdleCall EXCEPT !.max_retries = MAX_RETRIES,
                                                    !.session = SessionAfterGet], closed)]
            /\ tool' = [tool EXCEPT !.pc = "awaiting", !.name = name, !.tax_id = t,
                                    !.cleaned = validate_tax_id(t).value]
    /\ UNCHANGED <<caller, confVars, trend, cmp, taxid, fin>>

\* The request of a tool of one request has ended.
FetchDone ==
    /\ tool.pc = "awaiting"
    /\ Ended(call[1])
    /\ \E out \in FetchEndings(tool.name, tool.cleaned, call[1].outcome) :
          tool' = Conclude(tool, out)
    /\ UNCHANGED <<sessVars, caller, call, confVars, trend, cmp, taxid, fin>>

\* gather has returned the profile and the financial data.
GatherToolDone ==
    /\ tool.pc = "gathering"
    /\ GatherDone(1)
    /\ tool' = Conclude(tool, GatherEnding(tool.name, call[1], call[2]))
    /\ UNCHANGED <<sessVars, caller, call, confVars, trend, cmp, taxid, fin>>

\* ------------------------------------------------------------ the CUI search

\* \w of a str pattern: the alphanumeric characters and the underscore.
WordChars ==
    {LowerLetters[i] : i \in 1..Len(LowerLetters)}
    \cup {UpperLetters[i] : i \in 1..Len(UpperLetters)}
    \cup DigitChars \cup SuperscriptDigits
    \cup {"_", "ª", "º", "ß", "ÿ", "¼", "½", "¾"}

\* [\s:\-]
SeparatorChars == SpaceChars \cup {":", "-"}

\* The literals of the pattern under re.IGNORECASE, letter by letter.
CuiLetters == <<{"C", "c"}, {"U", "u"}, {"I", "i"}>>
CifLetters == <<{"C", "c"}, {"I", "i"}, {"F", "f"}>>
RoLetters == <<{"R", "r"}, {"O", "o"}>>
CodLetters == <<{"C", "c"}, {"O", "o"}, {"D", "d"}>>
FiscalLetters ==
    <<{"F", "f"}, {"I", "i"}, {"S", "s"}, {"C", "c"}, {"A", "a"}, {"L", "l"}>>

IsWordAt(t, i) == i >= 1 /\ i <= Len(t) /\ t[i] \in WordChars

SpellsAt(t, i, letters) ==
    /\ i + Len(letters) - 1 <= Len(t)
    /\ \A j \in 1..Len(letters) : t[i + j - 1] \in letters[j]

\* The first position from i on whose character is outside the class.
RECURSIVE SkipWhile(_, _, _)
SkipWhile(t, i, class) ==
    IF i <= Len(t) /\ t[i] \in class THEN SkipWhile(t, i + 1, class) ELSE i

\* (?:CUI|CIF|RO|Cod\s+fiscal) at position i: the position after it, or 0.
PrefixEnd(t, i) ==
    IF SpellsAt(t, i, CuiLetters) \/ SpellsAt(t, i, CifLetters) THEN i + 3
    ELSE IF SpellsAt(t, i, RoLetters) THEN i + 2
    ELSE IF /\ SpellsAt(t, i, CodLetters)
            /\ SkipWhile(t, i + 3, SpaceChars) > i + 3
            /\ SpellsAt(t, SkipWhile(t, i + 3, SpaceChars), FiscalLetters)
    THEN SkipWhile(t, i + 3, SpaceChars) + 6
    ELSE 0

\* The pattern of line 731 at position i.  \d{2,10}\b takes a whole run of 2
\* to 10 decimal digits that no word character follows; from and to bound
\* the digits captured.
CuiMatchAt(t, i) ==
    IF IsWordAt(t, i - 1) \/ PrefixEnd(t, i) = 0
    THEN [found |-> FALSE, from |-> i, to |-> i]
    ELSE LET from == SkipWhile(t, PrefixEnd(t, i), SeparatorChars)
             to == SkipWhile(t, from, DigitChars)
         IN  [found |-> /\ to - from >= 2
                        /\ to - from <= 10
                        /\ ~IsWordAt(t, to),
              from |-> from, to |-> to]

\* cui_pattern.findall(text) from position i on: the captures of the
\* matches, found left to right without overlap.
RECURSIVE FindAll(_, _)
FindAll(t, i) ==
    IF i > Len(t) THEN <<>>
    ELSE IF CuiMatchAt(t, i).found
         THEN <<SubSeq(t, CuiMatchAt(t, i).from, CuiMatchAt(t, i).to - 1)>>
              \o FindAll(t, CuiMatchAt(t, i).to)
         ELSE FindAll(t, i + 1)

\* sub in s
Contains(s, sub) ==
    \E i \in 1..(Len(s) - Len(sub) + 1) : SubSeq(s, i, i + Len(sub) - 1) = sub

Mfinante == <<"m", "f", "i", "n", "a", "n", "t", "e">>
Onrc == <<"o", "n", "r", "c">>
DotRo == <<".", "r", "o">>
AnafRo == <<"a", "n", "a", "f">> \o DotRo
TargetareRo == <<"t", "a", "r", "g", "e", "t", "a", "r", "e">> \o DotRo

\* Lines 744-752: the confidence and the source a link stands for.
Confidence(link) ==
    IF \/ Contains(link, Mfinante \o DotRo)
       \/ Contains(link, Onrc \o DotRo)
       \/ Contains(link, AnafRo)
    THEN "very_high"
    ELSE IF Contains(link, TargetareRo) THEN "high" ELSE "medium"

Source(link) ==
    IF Confidence(link) = "very_high"
    THEN IF Contains(link, Mfinante) THEN "mfinante.ro"
         ELSE IF Contains(link, Onrc) THEN "onrc.ro" ELSE "anaf.ro"
    ELSE IF Confidence(link) = "high" THEN "targetare.ro" ELSE "other"

confidence_score(confidence) ==
    CASE confidence = "very_high" -> 4
      [] confidence = "high" -> 3
      [] confidence = "medium" -> 2
      [] confidence = "low" -> 1
      [] OTHER -> 0

\* snippet[:150]
ContextChars == 150
Context(snippet) ==
    IF Len(snippet) <= ContextChars THEN snippet ELSE SubSeq(snippet, 1, ContextChars)

\* An item of the search answer: item.get("title", "") and so on.
Item(title, snippet, link) == [title |-> title, snippet |-> snippet, link |-> link]

Candidate(cui, item) ==
    [cui |-> cui, source |-> Source(item.link), confidence |-> Confidence(item.link),
     url |-> item.link, context |-> Context(item.snippet), title |-> item.title]

\* Line 754: cui_candidates keeps its keys in the order they were first
\* stored; a later find replaces an entry only with a higher confidence.
Store(candidates, c) ==
    IF \E i \in 1..Len(candidates) : candidates[i].cui = c.cui
    THEN LET i == CHOOSE i \in 1..Len(candidates) : candidates[i].cui = c.cui
         IN  IF confidence_score(c.confidence) > confidence_score(candidates[i].confidence)
             THEN [candidates EXCEPT ![i] = c]
             ELSE candidates
    ELSE Append(candidates, c)

RECURSIVE StoreMatches(_, _, _)
StoreMatches(candidates, cuis, item) ==
    IF cuis = <<>> THEN candidates
    ELSE StoreMatches(Store(candidates, Candidate(Head(cuis), item)), Tail(cuis), item)

\* for item in data["items"]: the matches of f"{title} {snippet}".
RECURSIVE CuiCandidates(_, _)
CuiCandidates(candidates, items) ==
    IF items = <<>> THEN candidates
    ELSE CuiCandidates(
             StoreMatches(candidates,
                          FindAll(Head(items).title \o <<" ">> \o Head(items).snippet, 1),
                          Head(items)),
             Tail(items))

\* s[:n] of a list
UpTo(s, n) ==
    IF n >= 0 THEN SubSeq(s, 1, IF n < Len(s) THEN n ELSE Len(s))
    ELSE SubSeq(s, 1, IF Len(s) + n > 0 THEN Len(s) + n ELSE 0)

\* sorted(cui_candidates.values(), key=confidence_score, reverse=True)[:limit]
SortedCandidates(candidates, limit_results) ==
    LET scores == [i \in 1..Len(candidates) |-> confidence_score(candidates[i].confidence)]
        order == SortedDesc(scores, Len(candidates))
    IN  UpTo([i \in 1..Len(candidates) |-> candidates[order[i]]], limit_results)

\* f'"{company_name}" CUI România', then the county when there is one.
SearchQuery(company_name, county) ==
    <<"\"">> \o company_name \o <<"\" CUI România">>
    \o (IF county # <<>> THEN <<" ">> \o county ELSE <<>>)

\* Lines 773-788 on the candidates kept.
SearchResult(search, sorted_candidates) ==
    IF sorted_candidates = <<>>
    THEN Throws(ToolError(<<"Could not extract CUI from search results">>, 0, ""))
    ELSE Returns(
             [company_name |-> search.company_name.chars,
              county |-> search.county,
              search_query |-> SearchQuery(search.company_name.chars, search.county),
              candidates_found |-> Len(sorted_candidates),
              candidates |-> sorted_candidates,
              best_match |->
                  [cui |-> sorted_candidates[1].cui,
                   confidence |-> sorted_candidates[1].confidence,
                   source |-> sorted_candidates[1].source,
                   next_step |-> <<"Use get_company_financials(tax_id='">>
                                 \o sorted_candidates[1].cui
                                 \o <<"') for financial analysis">>]],
             <<"Found CUI: ">> \o sorted_candidates[1].cui
                 \o <<" (", sorted_candidates[1].confidence, " confidence)">>)

\* The decoded answer of the search: an object with or without "items".
NoItems == NoSearchData
Items(items) == [has_items |-> TRUE, items |-> items]

\* find_company_cui_by_name, lines 721-794, from the answer to session.get
\* on.  The detail of the error of an answer other than 200 is the colon and
\* the text of the answer, which follow the status code.
find_company_cui_by_name(search, resp, data) ==
    IF resp.kind # "status"
    THEN Throws(ToolError(<<"Search failed: ">>, 0, resp.text))
    ELSE IF resp.code # 200
    THEN Throws(ToolError(<<"Search failed with status ">>, resp.code, resp.text))
    ELSE IF ~data.has_items
    THEN Throws(ToolError(<<"No results found for: ">> \o search.company_name.chars, 0, ""))
    ELSE SearchResult(search,
                      SortedCandidates(CuiCandidates(<<>>, data.items),
                                       search.limit_results))

\* The tool is called: the two tests ahead of the try block, then
\* get_session and the request, which suspends.
FindCompanyCuiByName(company_name, county, limit_results) ==
    /\ NoCallPending
    /\ IF ~google_search_key \/ ~google_search_cx
       THEN /\ tool' = Conclude([tool EXCEPT !.name = "find_company_cui_by_name"],
                                Throws(ToolError(
                                    <<"Google Custom Search not configured. ",
                                      "Set GOOGLE_CUSTOM_SEARCH_API_KEY and ",
                                      "GOOGLE_CUSTOM_SEARCH_CX">>, 0, "")))
            /\ UNCHANGED sessVars
       ELSE IF ~company_name.isStr \/ company_name.chars = <<>>
       THEN /\ tool' = Conclude([tool EXCEPT !.name = "find_company_cui_by_name"],
                                Throws(ToolError(
                                    <<"company_name must be a non-empty string">>, 0, "")))
            /\ UNCHANGED sessVars
       ELSE /\ get_session
            /\ tool' = [tool EXCEPT !.pc = "searching",
                                    !.name = "find_company_cui_by_name",
                                    !.search = [company_name |-> company_name,
                                                county |-> county,
                                                limit_results |-> limit_results]]
    /\ UNCHANGED <<caller, call, confVars, trend, cmp, taxid, fin>>

\* The search is answered, or the request fails.
SearchAnswered(resp, data) ==
    /\ tool.pc = "searching"
    /\ tool' = Conclude([tool EXCEPT !.answer = resp, !.data = data],
                        find_company_cui_by_name(tool.search, resp, data))
    /\ UNCHANGED <<sessVars, caller, call, confVars, trend, cmp, taxid, fin>>

\* ============================================================ specifications

Init ==
    /\ session = None
    /\ connector = None
    /\ closed = {}
    /\ created = 0
    /\ connectors = 0
    /\ caller = [c \in Callers |-> IdleCaller]
    /\ call = [r \in Tasks |-> IdleCall]
    /\ targetare_key = TRUE
    /\ google_search_key = TRUE
    /\ google_search_cx = TRUE
    /\ cmp = IdleCompare
    /\ taxid = IdleTaxId
    /\ fin = IdleFin
    /\ trend = IdleTrend
    /\ tool = IdleTool

\* One call of make_request_with_retry against an arbitrary upstream.
NextRetry ==
    \E r \in RetryTasks :
        Start(r, 0..MaxRetriesArg) \/ Respond(r, Responses) \/ Wake(r)

SpecRetry == Init /\ [][NextRetry]_vars

\* The same call on an event loop that resumes it: every attempt is answered
\* or times out (ClientTimeout), and every backoff sleep ends.
SpecRetryFair == SpecRetry /\ WF_vars(NextRetry)

\* Coroutines that use the session manager concurrently, next to one call of
\* make_request_with_retry with the default budget.
SessionResponses == {StatusResp(200, "body_a"), StatusResp(429, "")}

NextSession ==
    \/ \E c \in Callers : GetSession(c) \/ CloseBegin(c) \/ CloseEnd(c)
    \/ \E r \in RetryTasks :
          Start(r, {MAX_RETRIES}) \/ Respond(r, SessionResponses) \/ Wake(r)

SpecSession == Init /\ [][NextSession]_vars

\* One invocation of compare_financial_performance.  The identifiers are
\* drawn from a few well-formed and malformed samples; the upstream gives
\* each fetch a final answer (a body, an absence or a rejection).
ValidSamples ==
    << Str(<<"R", "O", " ", "1", "2">>),
       Str(<<"3", "4", "5">>),
       Str(<<"c", "u", "i", "6", "7">>) >>

InvalidSamples ==
    { Str(<<"1">>),
      Str(<<>>),
      Str(<<"R", "O">>),
      Str(<<"1", "2", "3", "4", "5", "6", "7", "8", "9", "0", "1">>),
      NotAString }

ValidList(n) == [i \in 1..n |-> ValidSamples[((i - 1) % Len(ValidSamples)) + 1]]

CompareInputs ==
    {ValidList(n) : n \in 0..MaxFanout}
    \cup {ValidList(MaxCompare + 1)}
    \cup UNION {{[ValidList(n) EXCEPT ![p] = b] : p \in 1..n, b \in InvalidSamples} :
                  n \in 1..(MaxCompare + 1)}

ProfileResponses ==
    {StatusResp(200, "body_a"), StatusResp(200, "body_list"), StatusResp(401, "")}
FinancialResponses ==
    {StatusResp(200, "body_a"), StatusResp(200, "body_b"), StatusResp(200, "body_null"),
     StatusResp(200, "body_empty"), StatusResp(404, "")}
CompareResponses(r) == IF r % 2 = 1 THEN ProfileResponses ELSE FinancialResponses

InitCompare ==
    /\ session = None
    /\ connector = None
    /\ closed = {}
    /\ created = 0
    /\ connectors = 0
    /\ caller = [c \in Callers |-> IdleCaller]
    /\ call = [r \in Tasks |-> IdleCall]
    /\ targetare_key \in BOOLEAN
    /\ google_search_key = TRUE
    /\ google_search_cx = TRUE
    /\ cmp = IdleCompare
    /\ taxid = IdleTaxId
    /\ fin = IdleFin
    /\ trend = IdleTrend
    /\ tool = IdleTool

NextCompare ==
    \/ \E ids \in CompareInputs : CompareStart(ids)
    \/ \E r \in Tasks : TargetareStart(r)
    \/ \E r \in Tasks : AllStarted /\ Respond(r, CompareResponses(r))
    \/ CompareGather

SpecCompare == InitCompare /\ [][NextCompare]_vars

\* One fetched financial record under the ratio functions, the health score
\* and the analysis tools.  The record is one of a few samples, changed in up
\* to MaxEdits fields: a field is taken away, set to null, to an amount, to
\* a string that spells no number or to one that spells 400.
Amounts == {-100, 0, 50, 100, 150, 200, 400}
FieldValues ==
    {Absent, JsonNull, Text, JsonStr(<<" ", "4", "e", "2">>)}
    \cup {Num(n) : n \in Amounts}

SampleRecords ==
    {EmptyRecord, BareRecord, HealthyRecord, StrainedRecord, PartialRecord}

InitMetrics ==
    /\ session = None
    /\ connector = None
    /\ closed = {}
    /\ created = 0
    /\ connectors = 0
    /\ caller = [c \in Callers |-> IdleCaller]
    /\ call = [r \in Tasks |-> IdleCall]
    /\ targetare_key = TRUE
    /\ google_search_key = TRUE
    /\ google_search_cx = TRUE
    /\ cmp = IdleCompare
    /\ taxid = IdleTaxId
    /\ fin \in {[IdleFin EXCEPT !.record = r] : r \in SampleRecords}
    /\ trend = IdleTrend
    /\ tool = IdleTool

NextMetrics ==
    \/ \E f \in Fields, v \in FieldValues : SetField(f, v)
    \/ CalculateHealthScore
    \/ AnalyzeFinancialRatios
    \/ GenerateFinancialReport
    \/ AssessCreditRisk

SpecMetrics == InitMetrics /\ [][NextMetrics]_vars

\* One call of validate_tax_id.  The argument is an optional prefix, a run of
\* up to MaxTaxIdDigits digits with at most one other character inside it,
\* and an optional suffix; or it is not a string at all.
DigitString == <<"1", "2", "3", "4", "5", "6", "7", "8", "9", "0">>
DigitRun(n) == [i \in 1..n |-> DigitString[((i - 1) % Len(DigitString)) + 1]]
InsertAt(s, p, ch) == SubSeq(s, 1, p) \o <<ch>> \o SubSeq(s, p + 1, Len(s))

TaxIdPrefixes ==
    {<<>>, <<"R", "O">>, <<"r", "o">>, <<"R", "O", " ">>, <<"C", "U", "I">>,
     <<"c", "i", "f", " ">>, <<" ">>, <<"a">>}
TaxIdSeparators == {" ", ".", "-", "R", "²"}
TaxIdSuffixes == {<<>>, <<"\t">>, <<"">>, <<"R", "O">>}

TaxIdBodies ==
    UNION {{DigitRun(n)} \cup {InsertAt(DigitRun(n), p, ch) :
                                  p \in 0..n, ch \in TaxIdSeparators} :
           n \in 0..MaxTaxIdDigits}

TaxIdInputs ==
    {NotAString} \cup
    {Str(pre \o body \o post) :
        pre \in TaxIdPrefixes, body \in TaxIdBodies, post \in TaxIdSuffixes}

InitTaxId ==
    /\ session = None
    /\ connector = None
    /\ closed = {}
    /\ created = 0
    /\ connectors = 0
    /\ caller = [c \in Callers |-> IdleCaller]
    /\ call = [r \in Tasks |-> IdleCall]
    /\ targetare_key = TRUE
    /\ google_search_key = TRUE
    /\ google_search_cx = TRUE
    /\ cmp = IdleCompare
    /\ taxid \in {[IdleTaxId EXCEPT !.input = t] : t \in TaxIdInputs}
    /\ fin = IdleFin
    /\ trend = IdleTrend
    /\ tool = IdleTool

NextTaxId == ValidateTaxId

SpecTaxId == InitTaxId /\ [][NextTaxId]_vars

\* One fetched series under calculate_trend_analysis and the trend tool.  The
\* body is a list of up to MaxPeriods periods or a single object; the periods
\* are drawn from a few samples and carry ascending, descending or no years.
YearPatterns == {"ascending", "descending", "none"}

WithYears(h, pattern) ==
    [i \in 1..Len(h) |->
        CASE pattern = "ascending" -> [h[i] EXCEPT !["year"] = Num(2020 + i)]
          [] pattern = "descending" -> [h[i] EXCEPT !["year"] = Num(2020 - i)]
          [] OTHER -> h[i]]

InitTrend ==
    /\ session = None
    /\ connector = None
    /\ closed = {}
    /\ created = 0
    /\ connectors = 0
    /\ caller = [c \in Callers |-> IdleCaller]
    /\ call = [r \in Tasks |-> IdleCall]
    /\ targetare_key = TRUE
    /\ google_search_key = TRUE
    /\ google_search_cx = TRUE
    /\ cmp = IdleCompare
    /\ taxid = IdleTaxId
    /\ fin = IdleFin
    /\ \/ \E p \in PeriodSamples : trend = [IdleTrend EXCEPT !.doc = ObjectDoc(p)]
       \/ \E n \in 0..MaxPeriods, pattern \in YearPatterns :
              \E h \in [1..n -> PeriodSamples] :
                  trend = [IdleTrend EXCEPT !.doc = ListDoc(WithYears(h, pattern))]
    /\ tool = IdleTool

NextTrend == CalculateTrendAnalysis \/ AnalyzeFinancialTrends

SpecTrend == InitTrend /\ [][NextTrend]_vars

\* One invocation of any of the nine tools, with or without the API key and
\* the two settings of the search.  A tool of one request meets an arbitrary
\* upstream; the fetches of a tool that gathers meet the answers below, the
\* financial one with retries; the comparison is run on one or two
\* identifiers.
InitTool ==
    /\ session = None
    /\ connector = None
    /\ closed = {}
    /\ created = 0
    /\ connectors = 0
    /\ caller = [c \in Callers |-> IdleCaller]
    /\ call = [r \in Tasks |-> IdleCall]
    /\ targetare_key \in BOOLEAN
    /\ google_search_key \in BOOLEAN
    /\ google_search_cx \in BOOLEAN
    /\ cmp = IdleCompare
    /\ taxid = IdleTaxId
    /\ fin = IdleFin
    /\ trend = IdleTrend
    /\ tool = IdleTool

ToolTaxIds ==
    { Str(<<"R", "O", " ", "1", "2">>), Str(<<"3", "4", "5">>),
      Str(<<"1">>), Str(<<>>), NotAString }

ToolResponses ==
    Responses
    \cup {StatusResp(200, b) : b \in {"body_empty", "body_list", "body_null"}}

GatherResponses(r) ==
    IF r % 2 = 1
    THEN {StatusResp(200, "body_a"), StatusResp(200, "body_b"),
          StatusResp(200, "body_list"), StatusResp(200, "body_empty"),
          StatusResp(401, "")}
    ELSE {StatusResp(200, "body_a"), StatusResp(200, "body_b"),
          StatusResp(200, "body_list"), StatusResp(200, "body_empty"),
          StatusResp(401, ""), StatusResp(404, ""), StatusResp(429, ""),
          StatusResp(500, "")}

ComparedResponses(r) ==
    IF r % 2 = 1 THEN ProfileResponses
    ELSE FinancialResponses
         \cup {StatusResp(200, "body_text"), StatusResp(200, "body_list")}

\* The arguments of the search: the name, the county and limit_results.
SearchNames == {Str(<<"A", "l", "f", "a">>), Str(<<>>), NotAString}
SearchCounties == {<<>>, <<"C", "l", "u", "j">>}
SearchLimits == {5, 1, 0, -1}

\* The links of the search answers.
ListingLink ==
    <<"h", "t", "t", "p", "s", ":", "/", "/", "f", "i", "r", "m", "e", ".", "r", "o",
      "/", "a", "l", "f", "a">>
MfinanteLink ==
    <<"h", "t", "t", "p", "s", ":", "/", "/">> \o Mfinante \o DotRo \o <<"/", "x">>
TargetareLink ==
    <<"h", "t", "t", "p", "s", ":", "/", "/">> \o TargetareRo \o <<"/", "a">>
OnrcLink == <<"w", "w", "w", ".">> \o Onrc \o DotRo

\* Items of the search answers: titles and snippets that hold a CUI after
\* each of the prefixes, digits that are no CUI, and none.
ListingItem ==
    Item(<<"A", "l", "f", "a", " ", "C", "U", "I", " ", "1", "2", "3", "4", "5">>,
         <<"C", "o", "d", " ", " ", "F", "i", "s", "c", "a", "l", ":", " ",
           "1", "2", "3", "4", "5", ",", " ", "R", "O", "-", "7", "7">>,
         ListingLink)
RegistryItem ==
    Item(<<"A", "L", "F", "A">>,
         <<"c", "i", "f", ":", "7", "7", " ", "r", "o", "8", "8", "8">>,
         MfinanteLink)
TargetareItem ==
    Item(<<"C", "U", "I", " ", "1", "2", "3", "4", "5">>,
         <<"C", "U", "I", " ", "1", " ", "e", "u", "r", "o", "9", "9", " ",
           "R", "O", "1", "2", "3", "4", "5", "6", "7", "8", "9", "0", "1", " ",
           "C", "I", "F", "4", "2", "a">>,
         TargetareLink)
PlainItem ==
    Item(<<"A", "l", "f", "a">>, <<"S", "R", "L", " ", "1", "9", "9", "0">>, OnrcLink)

SearchAnswers ==
    { NoItems, Items(<<>>), Items(<<PlainItem>>),
      Items(<<ListingItem>>), Items(<<ListingItem, RegistryItem>>),
      Items(<<RegistryItem, ListingItem>>),
      Items(<<ListingItem, TargetareItem, RegistryItem>>) }

\* The answers other than 200, with the text of their bodies, and the
\* failures of the request.
SearchFailures ==
    {[StatusResp(c, "") EXCEPT !.text = ": quota"] : c \in {403, 429, 500}}
    \cup {ClientErrorResp("conn reset"), ExceptionResp("bad json")}

NextTool ==
    \/ \E name \in FetchTools \cup GatherTools, t \in ToolTaxIds : CallTool(name, t)
    \/ tool.pc = "awaiting" /\ Respond(1, ToolResponses)
    \/ \E r \in 1..2 : Wake(r)
    \/ FetchDone
    \/ \E r \in Tasks : TargetareStart(r)
    \/ \E r \in 1..2 : tool.pc = "gathering" /\ AllStarted /\ Respond(r, GatherResponses(r))
    \/ GatherToolDone
    \/ \E company_name \in SearchNames, county \in SearchCounties,
          limit_results \in SearchLimits :
            FindCompanyCuiByName(company_name, county, limit_results)
    \/ \E data \in SearchAnswers : SearchAnswered(StatusResp(200, ""), data)
    \/ \E resp \in SearchFailures : SearchAnswered(resp, NoItems)
    \/ \E n \in 1..2 : tool.pc = "idle" /\ CompareStart(ValidList(n))
    \/ \E r \in Tasks : cmp.pc = "gathering" /\ AllStarted /\ Respond(r, ComparedResponses(r))
    \/ CompareGather

SpecTool == InitTool /\ [][NextTool]_vars

\* ============================================================ properties

IsStatus(resp, code) == resp.kind = "status" /\ resp.code = code
Is429(resp) == IsStatus(resp, 429)
Last(s) == s[Len(s)]

\* The failures the executor retries and finally reports with an error:
\* a non-2xx status other than 401, 404 and 429, a timeout, a connection error.
RetriedFailure(resp) ==
    \/ resp.kind = "status" /\ resp.code \notin {200, 401, 404, 429}
    \/ resp.kind \in {"timeout", "client_error"}

\* C1: for max_retries >= 1, a call whose first max_retries attempts were all
\* answered 429 makes one more attempt, and returns that attempt's JSON body
\* when it is answered 200.
C1_SucceedsAfterMaxRetries429 ==
    \A r \in Tasks :
        LET c == call[r] IN
        (/\ c.max_retries >= 1
         /\ Ended(c)
         /\ Len(c.observed) >= c.max_retries
         /\ \A i \in 1..c.max_retries : Is429(c.observed[i]))
        => /\ Len(c.observed) = c.max_retries + 1
           /\ IsStatus(Last(c.observed), 200) => c.outcome = Return(Last(c.observed).body)

\* C2: a call whose every attempt was answered 429 ends by raising an error,
\* never by returning a value.
C2_RateLimitExhaustionRaises ==
    \A r \in Tasks :
        LET c == call[r] IN
        (Ended(c) /\ Len(c.observed) >= 1
         /\ \A i \in 1..Len(c.observed) : Is429(c.observed[i]))
        => c.outcome.type = "raise"

\* C3: a call that made an attempt returns None only when its last attempt
\* was answered 404; no transient-failure path ends by returning None.
C3_NoneOnlyOnNotFound ==
    \A r \in Tasks :
        LET c == call[r] IN
        (c.sent >= 1 /\ c.outcome = Return(NoneValue))
        => IsStatus(Last(c.observed), 404)

\* C4: an attempt answered 401 is the last one: the call has raised, no
\* further request was sent and no backoff sleep followed, whatever budget
\* remains.
C4_AuthFailureRaisesAtOnce ==
    \A r \in Tasks :
        LET c == call[r] IN
        \A i \in 1..Len(c.observed) :
            IsStatus(c.observed[i], 401)
            => /\ i = Len(c.observed)
               /\ c.pc = "raised"
               /\ c.outcome.type = "raise"
               /\ c.sent = i
               /\ Len(c.sleeps) = i - 1

C4_Witness ==
    \E r \in Tasks :
        LET c == call[r] IN
        /\ c.pc = "raised"
        /\ Len(c.observed) = 2
        /\ IsStatus(c.observed[2], 401)
        /\ c.max_retries = 3

\* C5: an attempt answered 404 is the last one: the call has returned None,
\* without another request, without a sleep and without raising.
C5_NotFoundReturnsAtOnce ==
    \A r \in Tasks :
        LET c == call[r] IN
        \A i \in 1..Len(c.observed) :
            IsStatus(c.observed[i], 404)
            => /\ i = Len(c.observed)
               /\ c.pc = "returned"
               /\ c.outcome = Return(NoneValue)
               /\ c.sent = i
               /\ Len(c.sleeps) = i - 1

C5_Witness ==
    \E r \in Tasks :
        LET c == call[r] IN
        /\ c.pc = "returned"
        /\ Len(c.observed) = 2
        /\ IsStatus(c.observed[2], 404)
        /\ c.max_retries = 3

\* The error names the failure `resp` by its status code or exception text.
CarriesStatusOrText(e, resp) ==
    IF resp.kind = "status" THEN e.code = resp.code ELSE e.detail = resp.text

\* The error names the failure `resp`: the status code of a status failure,
\* the exception text of a connection error, the fixed timeout message.
CarriesLastFailure(e, resp) ==
    CASE resp.kind = "status" -> e.code = resp.code
      [] resp.kind = "client_error" -> e.detail = resp.text
      [] resp.kind = "timeout" -> e.msg = <<"Request timeout - API not responding">>
      [] OTHER -> FALSE

OnlyRetriedFailures(c) ==
    /\ Ended(c)
    /\ Len(c.observed) >= 1
    /\ \A i \in 1..Len(c.observed) : RetriedFailure(c.observed[i])

\* C6 as stated: when every attempt ends in a retried failure, the call
\* raises after exactly max_retries attempts, and the message carries the
\* last observed status code or low-level exception text.
C6_Original ==
    \A r \in Tasks :
        LET c == call[r] IN
        OnlyRetriedFailures(c)
        => /\ c.pc = "raised"
           /\ Len(c.observed) = c.max_retries
           /\ c.sent = c.max_retries
           /\ CarriesStatusOrText(c.outcome.error, Last(c.observed))

\* C6 as amended: the same, except that after a final timeout the message
\* is the fixed text "Request timeout - API not responding" and carries no
\* exception text.
C6_RetriedFailuresExhaustThenRaise ==
    \A r \in Tasks :
        LET c == call[r] IN
        OnlyRetriedFailures(c)
        => /\ c.pc = "raised"
           /\ Len(c.observed) = c.max_retries
           /\ c.sent = c.max_retries
           /\ Len(c.sleeps) = c.max_retries - 1
           /\ CarriesLastFailure(c.outcome.error, Last(c.observed))

C6_Witness ==
    \E r \in Tasks :
        LET c == call[r] IN
        /\ OnlyRetriedFailures(c)
        /\ c.pc = "raised"
        /\ Len(c.observed) = 3
        /\ c.observed[1] = TimeoutResp("read timeout")
        /\ IsStatus(c.observed[2], 500)
        /\ IsStatus(c.observed[3], 503)

\* ---------------------------------------------------------- session manager

\* C7: as long as no session has been closed, whatever number of coroutines
\* have called get_session in whatever order, one ClientSession and one
\* TCPConnector have been constructed and every caller holds that instance.
C7_OneSessionForConcurrentFirstUse ==
    closed = {}
    => /\ created <= 1
       /\ connectors <= 1
       /\ \A c \in Callers :
             caller[c].op = "get" => caller[c].handle = session /\ created = 1
       /\ \A r \in Tasks :
             call[r].pc # "idle" => call[r].session = session /\ created = 1

C7_Witness ==
    /\ closed = {}
    /\ created = 1
    /\ \A c \in Callers : caller[c].op = "get" /\ caller[c].handle = session
    /\ \A r \in RetryTasks : call[r].pc # "idle" /\ call[r].session = session

\* What a get_session call that returns h has done, from the state before it.
GetContract(h) ==
    /\ h # None
    /\ h = session'
    /\ h \notin closed'
    /\ IF session # None /\ session \notin closed
       THEN session' = session /\ created' = created /\ connectors' = connectors
       ELSE /\ session' \notin 1..created
            /\ created' = created + 1
            /\ connectors' = connectors + 1

CallerGets(c) == caller'[c].ops = caller[c].ops + 1 /\ caller'[c].op = "get"
CallerCloses(c) == caller'[c].ops = caller[c].ops + 1 /\ caller'[c].op = "close"
CallStarts(r) == call[r].pc = "idle" /\ call'[r].pc # "idle"

\* C8: after any sequence of get_session and close calls, get_session
\* returns the existing session when one exists and is open and constructs a
\* new one only otherwise; the handle it returns is open when returned;
\* sessions are constructed by get_session alone, and every call of
\* make_request_with_retry sends its requests on the handle get_session gave it.
C8_GetSessionReusesOrRebuilds ==
    [][/\ \A c \in Callers : CallerGets(c) => GetContract(caller'[c].handle)
       /\ \A r \in Tasks :
             /\ CallStarts(r) => GetContract(call'[r].session)
             /\ ~CallStarts(r) => call'[r].session = call[r].session
             /\ call'[r].sent > call[r].sent => call'[r].session \in 1..created'
       /\ created' # created =>
             (\E c \in Callers : CallerGets(c)) \/ (\E r \in Tasks : CallStarts(r))
      ]_vars

C8_Witness ==
    /\ created = 2
    /\ closed = {1}
    /\ session = 2
    /\ \E c \in Callers : caller[c].op = "get" /\ caller[c].handle = 2
    /\ \E r \in Tasks : call[r].sent >= 1 /\ call[r].session = 2

\* C9: close changes nothing and returns at once when no session was ever
\* acquired or the session is already closed; otherwise it closes the session
\* and returns only after the 0.25 s sleep that follows.
C9_CloseIsNoopOrWaitsGrace ==
    [][\A c \in Callers :
          /\ CallerCloses(c) =>
                IF session = None \/ session \in closed
                THEN /\ UNCHANGED sessVars
                     /\ caller'[c].pc = "idle"
                     /\ caller'[c].slept = 0
                ELSE /\ closed' = closed \cup {session}
                     /\ UNCHANGED <<session, connector, created, connectors>>
                     /\ caller'[c].pc = "grace"
          /\ (caller[c].pc = "grace" /\ caller'[c].pc = "idle") =>
                caller'[c].slept = CloseGraceCs
      ]_vars

C9_Witness ==
    /\ session # None
    /\ session \in closed
    /\ \E c, d \in Callers :
          /\ caller[c].op = "close" /\ caller[c].pc = "idle"
          /\ caller[c].slept = CloseGraceCs
          /\ caller[d].op = "close" /\ caller[d].pc = "idle"
          /\ caller[d].ops = 2 /\ caller[d].handle = None /\ caller[d].slept = 0

\* ---------------------------------------------------------- comparison tool

RequestsSent == \E r \in Tasks : call[r].sent > 0 \/ call[r].pc # "idle"

ValidationErrors ==
    { ToolError(<<"Provide at least 2 companies to compare">>, 0, ""),
      ToolError(<<"Maximum 10 companies allowed for comparison">>, 0, ""),
      ToolError(<<"Tax ID must be a non-empty string">>, 0, ""),
      ToolError(<<"Invalid tax ID: ", ". Must contain digits.">>, 0, "") }
    \cup { ToolError(<<"Invalid tax ID length: ", ". Must be 2-10 digits.">>, n, "")
             : n \in 0..20 }

RejectedInput(ids) ==
    \/ Len(ids) < 2
    \/ Len(ids) > 10
    \/ \E i \in 1..Len(ids) : ~validate_tax_id(ids[i]).ok

\* C10: an invocation given fewer than 2 or more than 10 identifiers, or an
\* identifier that fails validate_tax_id, has raised a validation error and
\* no fetch was created or started: no upstream request has been issued.
C10_ValidationBeforeAnyFetch ==
    (cmp.pc # "idle" /\ RejectedInput(cmp.tax_ids))
    => /\ cmp.pc = "raised"
       /\ cmp.error \in ValidationErrors
       /\ ~RequestsSent
       /\ created = 0

C10_Witness ==
    /\ cmp.pc = "raised"
    /\ Len(cmp.tax_ids) = 3
    /\ validate_tax_id(cmp.tax_ids[1]).ok
    /\ validate_tax_id(cmp.tax_ids[2]).ok
    /\ ~validate_tax_id(cmp.tax_ids[3]).ok
    /\ ~RequestsSent

\* ---- comparison: the gather barrier

GatherStep == cmp.pc = "gathering" /\ cmp'.pc # "gathering"
TaskRaises(r) == call[r].pc # "raised" /\ call'[r].pc = "raised"
FannedOut == 1..(2 * Len(cmp.tax_ids))

\* C11: compare_financial_performance computes its statistics and rankings
\* only in a step before which every fanned-out fetch (profile and financial,
\* of every identifier) has ended with a value or a captured error, whatever
\* the order in which they ended; and a step in which one fetch ends with an
\* error changes no sibling fetch and does not end the comparison.
C11_GatherWaitsForEveryFetch ==
    [][ /\ GatherStep =>
              \A r \in FannedOut :
                  /\ Ended(call[r])
                  /\ call[r].outcome.type \in {"return", "raise"}
                  /\ call'[r] = call[r]
        /\ \A r \in Tasks :
              TaskRaises(r) =>
                  /\ \A q \in Tasks \ {r} : call'[q] = call[q]
                  /\ cmp' = cmp ]_vars

\* A comparison was returned although one of its fetches had raised.
C11_Witness ==
    /\ cmp.pc = "returned"
    /\ \E r \in FannedOut : call[r].pc = "raised"
    /\ \A r \in FannedOut : Ended(call[r])

\* ---- comparison: partial failures

\* The fetch succeeded: it returned a body that holds something.
ReturnedRecord(c) ==
    /\ c.outcome.type = "return"
    /\ c.outcome.value # NoneValue
    /\ c.outcome.value # "body_empty"
Gathered == cmp.pc \in {"returned", "raised"} /\ cmp.cleaned_ids # <<>>

BothReturnedRecord ==
    {k \in 1..Len(cmp.tax_ids) :
        ReturnedRecord(call[2 * k - 1]) /\ ReturnedRecord(call[2 * k])}

\* The outcome of the comparison is the one that keeping exactly the
\* positions in S calls for.
KeepsExactly(S) ==
    IF Cardinality(S) >= MinCompare
    THEN /\ cmp.pc = "returned"
         /\ {cmp.companies[i] : i \in 1..Len(cmp.companies)} = S
         /\ \A i \in 1..(Len(cmp.companies) - 1) : cmp.companies[i] < cmp.companies[i + 1]
         /\ Len(cmp.companies_data) = Len(cmp.companies)
         /\ \A i \in 1..Len(cmp.companies) :
               cmp.companies_data[i].tax_id = cmp.cleaned_ids[cmp.companies[i]]
         /\ cmp.result.companies_compared = Len(cmp.companies_data)
         /\ cmp.result.companies_compared \in MinCompare..MaxCompare
    ELSE /\ cmp.pc = "raised"
         /\ cmp.error.msg = <<"Could not retrieve financial data for enough companies">>

\* C12: when some fetches fail, the result holds exactly the entities whose
\* profile fetch and financial fetch both succeeded (a fetch succeeds when it
\* returns a record; one that raised, returned None or returned the empty
\* object is counted as failed), in input order, when at least 2 remain, and
\* the operation raises the one error of too few entities otherwise; every
\* returned comparison holds 2 to 10 entities and companies_compared is
\* their number.  It fails: two entities fetched in full, one of them with a
\* null revenue, end in "Comparison failed: ...".
C12_KeepsEntitiesWhoseFetchesSucceeded == Gathered => KeepsExactly(BothReturnedRecord)

\* ---- comparison: rankings

WithoutRank(ranking) ==
    [i \in 1..Len(ranking) |->
        [tax_id |-> ranking[i].tax_id, name |-> ranking[i].name, key |-> ranking[i].key]]

RevenueEntries ==
    [i \in 1..Len(cmp.companies_data) |->
        [tax_id |-> cmp.companies_data[i].tax_id,
         name |-> cmp.companies_data[i].company_name,
         key |-> cmp.companies_data[i].revenue.num]]

HealthEntries ==
    [i \in 1..Len(cmp.companies_data) |->
        [tax_id |-> cmp.companies_data[i].tax_id,
         name |-> cmp.companies_data[i].company_name,
         key |-> cmp.companies_data[i].health_score]]

\* ranking lists the entries once each, numbered 1..n, in descending order
\* of key, entries of equal key in the order they have in entries.
IsStableRanking(ranking, entries) ==
    /\ Len(ranking) = Len(entries)
    /\ \A i \in 1..Len(ranking) : ranking[i].rank = i
    /\ \A i \in 1..(Len(ranking) - 1) : ranking[i].key >= ranking[i + 1].key
    /\ \A v \in {entries[i].key : i \in 1..Len(entries)} :
          SelectSeq(WithoutRank(ranking), LAMBDA e : e.key = v)
              = SelectSeq(entries, LAMBDA e : e.key = v)

\* C13: by_revenue and by_financial_health are each a permutation of the
\* compared entities, numbered 1..n without gaps, descending by revenue and by
\* health score respectively, entities of equal key in input order; each
\* ranking is determined by its own key alone.
C13_RankingsAreStableDescending ==
    cmp.pc = "returned" =>
        /\ IsStableRanking(cmp.result.by_revenue, RevenueEntries)
        /\ IsStableRanking(cmp.result.by_financial_health, HealthEntries)

\* Three entities compared, two of them tied on revenue and distinguishable,
\* and the two rankings led by different entities.
C13_Witness ==
    /\ cmp.pc = "returned"
    /\ Len(cmp.companies_data) = 3
    /\ \E i, j \in 1..3 :
          /\ i < j
          /\ cmp.companies_data[i].revenue = cmp.companies_data[j].revenue
          /\ cmp.companies_data[i].tax_id # cmp.companies_data[j].tax_id
    /\ cmp.result.by_revenue[1].tax_id # cmp.result.by_financial_health[1].tax_id

\* ---- metrics engine: degenerate records

Computed == fin.pc = "returned" /\ fin.tool # "assess_credit_risk"
Denominators ==
    {"current_liabilities", "revenue", "total_equity", "total_assets", "interest_expense"}
Degenerate(rec) ==
    \E f \in Fields : rec[f].kind = "absent" \/ (f \in Denominators /\ rec[f] = Num(0))

\* f is read as zero: it is absent, or holds zero as a number or a string.
ReadsZero(rec, f) == ~ValueRaises(Get(rec, f)) /\ Float(rec, f) = 0

\* The ratios whose denominator is absent or zero are None.
UncomputableAreNull(rec, ratios) ==
    /\ ReadsZero(rec, "current_liabilities") =>
          /\ ratios.liquidity.current_ratio.null
          /\ ratios.liquidity.quick_ratio.null
          /\ ratios.liquidity.cash_ratio.null
    /\ ReadsZero(rec, "revenue") =>
          /\ ratios.profitability.gross_profit_margin.null
          /\ ratios.profitability.operating_profit_margin.null
          /\ ratios.profitability.net_profit_margin.null
    /\ ReadsZero(rec, "total_equity") =>
          /\ ratios.profitability.roe.null
          /\ ratios.solvency.debt_to_equity.null
    /\ ReadsZero(rec, "total_assets") =>
          /\ ratios.profitability.roa.null
          /\ ratios.solvency.debt_to_assets.null
          /\ ratios.solvency.equity_ratio.null
          /\ ratios.efficiency.asset_turnover.null
    /\ ReadsZero(rec, "interest_expense") => ratios.solvency.interest_coverage.null

\* C14 as stated: analyze_financial_ratios and generate_financial_report
\* return a success result, with the uncomputable ratios null, for every
\* fetched (non-empty) record in which fields are missing or a denominator
\* is zero.
C14_DegenerateRecordsSucceed ==
    (/\ fin.tool \in {"analyze_financial_ratios", "generate_financial_report"}
     /\ ~IsEmpty(fin.record)
     /\ Degenerate(fin.record))
    => /\ fin.pc = "returned"
       /\ UncomputableAreNull(fin.record, fin.result.ratios)

\* ---- metrics engine: health score

RatioSamples == {NoRatio, Ratio(-100), Ratio(0), Ratio(100), Ratio(2000)}
SampleRatioSets ==
    {[liquidity |-> [NoResult.ratios.liquidity EXCEPT !.current_ratio = cr],
      profitability |-> [NoResult.ratios.profitability EXCEPT
                            !.net_profit_margin = npm, !.roe = roe],
      solvency |-> [NoResult.ratios.solvency EXCEPT
                       !.debt_to_equity = dte, !.interest_coverage = ic],
      efficiency |-> [NoResult.ratios.efficiency EXCEPT !.asset_turnover = at]] :
        cr \in RatioSamples, npm \in RatioSamples, roe \in RatioSamples,
        dte \in RatioSamples, ic \in RatioSamples, at \in RatioSamples}

HealthRatings == {"Excellent", "Good", "Fair", "Poor", "Critical"}

AllFieldsMissing(rec) == \A f \in Fields : rec[f].kind = "absent"

\* C15: calculate_financial_health_score returns an integer score in [0,100]
\* (and one of the five ratings) for every RatioSet; for the RatioSet derived
\* from a record with all fields missing it returns score 0 and rating
\* Critical, without raising.
C15_HealthScoreInRange ==
    fin.tool = "calculate_financial_health_score" =>
        /\ fin.pc = "returned"
        /\ fin.result.health_score \in 0..100
        /\ fin.result.health_rating \in HealthRatings
        /\ AllFieldsMissing(fin.record) =>
              /\ fin.result.health_score = 0
              /\ fin.result.health_rating = "Critical"
              /\ \A rs \in SampleRatioSets :
                    /\ calculate_financial_health_score(rs).score \in 0..100
                    /\ calculate_financial_health_score(rs).rating \in HealthRatings

\* The health score was computed for the record with every field missing.
C15_Witness ==
    /\ fin.tool = "calculate_financial_health_score"
    /\ AllFieldsMissing(fin.record)
    /\ fin.pc = "returned"
    /\ fin.result.health_score = 0
    /\ \A f \in {"current_ratio", "quick_ratio", "cash_ratio"} :
          fin.result.ratios.liquidity[f].null

\* The maximum of a band counts only when its ratio is not None.
BandMax(r, points) == IF r.null THEN 0 ELSE points
PointsAchievable(ratios) ==
    BandMax(ratios.liquidity.current_ratio, 25)
    + BandMax(ratios.profitability.net_profit_margin, 20)
    + BandMax(ratios.profitability.roe, 10)
    + BandMax(ratios.solvency.debt_to_equity, 15)
    + BandMax(ratios.solvency.interest_coverage, 10)
    + BandMax(ratios.efficiency.asset_turnover, 20)

\* points_earned / points_achievable x 100 to the nearest integer (halves up).
NormalisedScore(ratios) ==
    IF PointsAchievable(ratios) = 0 THEN 0
    ELSE (200 * HealthPoints(ratios) + PointsAchievable(ratios))
             \div (2 * PointsAchievable(ratios))

\* C16 as stated: a band whose ratio is null contributes no points and is
\* excluded from the achievable maximum; the final score is points_earned /
\* points_achievable x 100 rounded to the nearest integer.
C16_NullBandsLeaveTheMaximum ==
    (fin.pc = "returned" /\ fin.tool \in
        {"calculate_financial_health_score", "analyze_financial_ratios",
         "generate_financial_report"})
    => fin.result.health_score = NormalisedScore(fin.result.ratios)

\* ---- metrics engine: ratio families

RatioInputs ==
    [current_ratio |-> {"current_assets", "current_liabilities"},
     quick_ratio |-> {"current_assets", "inventory", "current_liabilities"},
     cash_ratio |-> {"cash", "current_liabilities"},
     gross_profit_margin |-> {"revenue", "cost_of_goods_sold"},
     operating_profit_margin |-> {"operating_income", "revenue"},
     net_profit_margin |-> {"net_income", "revenue"},
     roa |-> {"net_income", "total_assets"},
     roe |-> {"net_income", "total_equity"},
     debt_to_equity |-> {"total_debt", "total_equity"},
     debt_to_assets |-> {"total_debt", "total_assets"},
     equity_ratio |-> {"total_equity", "total_assets"},
     interest_coverage |-> {"ebit", "interest_expense"},
     asset_turnover |-> {"revenue", "total_assets"},
     inventory_turnover |-> {"cost_of_goods_sold", "inventory"},
     receivables_turnover |-> {"revenue", "accounts_receivable"},
     days_sales_outstanding |-> {"revenue", "accounts_receivable"}]

Families == {"liquidity", "profitability", "solvency", "efficiency"}

\* C17 as stated: in every ratio family a ratio is null whenever an input it
\* requires, numerator or denominator, is missing from the record.
C17_MissingInputGivesNull ==
    Computed =>
        \A fam \in Families :
            \A name \in DOMAIN fin.result.ratios[fam] :
                (\E f \in RatioInputs[name] : fin.record[f].kind = "absent")
                    => fin.result.ratios[fam][name].null

\* The value float() makes of current_liabilities is zero or negative (the
\* field is absent, or holds such a number or a string that spells one), or
\* float() raises on it (null, a string that spells no number).
NoLiabilities(rec) ==
    \/ ValueRaises(Get(rec, "current_liabilities"))
    \/ Float(rec, "current_liabilities") <= 0

\* C18: for every record whose current_liabilities is absent, zero or
\* negative (or null, or no number), calculate_liquidity_ratios returns
\* current_ratio, quick_ratio and cash_ratio all None, each present as a
\* key, and does not raise.
C18_NoLiabilitiesNoLiquidityRatios ==
    (/\ fin.tool = "calculate_financial_health_score"
     /\ NoLiabilities(fin.record))
    => /\ fin.pc = "returned"
       /\ DOMAIN fin.result.ratios.liquidity
              = {"current_ratio", "quick_ratio", "cash_ratio"}
       /\ \A name \in DOMAIN fin.result.ratios.liquidity :
              fin.result.ratios.liquidity[name] = NoRatio

\* The liquidity ratios were computed for a record with negative current
\* liabilities and positive current assets.
C18_Witness ==
    /\ fin.tool = "calculate_financial_health_score"
    /\ fin.pc = "returned"
    /\ fin.record["current_liabilities"].kind = "num"
    /\ fin.record["current_liabilities"].num < 0
    /\ fin.record["current_assets"].num > 0
    /\ fin.result.ratios.liquidity.current_ratio = NoRatio

\* ---- tax-id validation

DigitsOf(chars) == SelectSeq(chars, LAMBDA ch : ch \in DigitChars)
IsEmptyOrNotAString(t) == ~t.isStr \/ t.chars = <<>>

\* C19 as stated: validate_tax_id returns exactly the decimal digits of its input, in
\* their original order, when the input contains 2 to 10 digits; it raises
\* when the input is empty, is not a string, or contains fewer than 2 or more
\* than 10 digits; it never returns a string that is not 2 to 10 digits.
C19_ReturnsTheDigitsOrRaises ==
    taxid.pc # "idle" =>
        LET digits == DigitsOf(taxid.input.chars) IN
        /\ (taxid.input.isStr /\ Len(digits) \in MinTaxIdLen..MaxTaxIdLen) =>
              /\ taxid.pc = "returned"
              /\ taxid.result.value = digits
        /\ (\/ IsEmptyOrNotAString(taxid.input)
            \/ Len(digits) < MinTaxIdLen
            \/ Len(digits) > MaxTaxIdLen) =>
              /\ taxid.pc = "raised"
              /\ taxid.result.error # NoError
        /\ taxid.pc = "returned" =>
              /\ Len(taxid.result.value) \in MinTaxIdLen..MaxTaxIdLen
              /\ \A i \in 1..Len(taxid.result.value) : taxid.result.value[i] \in DigitChars

\* ---- credit assessment

RatingRank(rating) ==
    CASE rating = "AAA" -> 9 [] rating = "AA" -> 8 [] rating = "A" -> 7
      [] rating = "BBB" -> 6 [] rating = "BB" -> 5 [] rating = "B" -> 4
      [] rating = "CCC" -> 3 [] rating = "CC" -> 2 [] rating = "C" -> 1
      [] OTHER -> 0

NotLower(before, after) ==
    (before.null /\ after.null) \/ (~before.null /\ ~after.null /\ after.x >= before.x)
NotHigher(before, after) ==
    (before.null /\ after.null) \/ (~before.null /\ ~after.null /\ after.x <= before.x)

\* Every ratio of the credit rubric is as good in `after` as in `before`.
RatiosNotWorse(before, after) ==
    /\ NotLower(before.liquidity.current_ratio, after.liquidity.current_ratio)
    /\ NotLower(before.profitability.net_profit_margin, after.profitability.net_profit_margin)
    /\ NotLower(before.profitability.roa, after.profitability.roa)
    /\ NotLower(before.solvency.interest_coverage, after.solvency.interest_coverage)
    /\ NotHigher(before.solvency.debt_to_equity, after.solvency.debt_to_equity)

\* C20 as stated: whenever every underlying ratio of a second assessment is
\* as good as or better than in the first (current_ratio, net_profit_margin,
\* roa, interest_coverage not lower, debt_to_equity not higher), its credit
\* score is not lower and its letter rating is not further down the scale.
\* The second record differs from the assessed one in one field.
C20_RatingMonotoneInRatios ==
    (fin.tool = "assess_credit_risk" /\ fin.pc = "returned") =>
        \A f \in Fields, v \in FieldValues :
            LET after == assess_credit_risk([fin.record EXCEPT ![f] = v]) IN
            (after.ok /\ RatiosNotWorse(fin.result.ratios, after.result.ratios))
            => /\ after.result.credit_score >= fin.result.credit_score
               /\ RatingRank(after.result.credit_rating)
                      >= RatingRank(fin.result.credit_rating)

\* ---- trend analysis

PeriodCount(doc) == IF doc.isList THEN Len(doc.periods) ELSE 1
NoGrowthFigures(trends) ==
    ~trends.revenue.present /\ ~trends.net_income.present /\ ~trends.total_assets.present

\* C21: over fewer than 2 periods no growth figure is produced:
\* calculate_trend_analysis returns the explicit insufficient-data error and
\* analyze_financial_trends raises; neither outcome is ever produced for a
\* series of 2 or more periods, whose uncomputable figures are absent from a
\* returned result instead.
C21_TooFewPeriodsIsAnExplicitError ==
    /\ trend.tool = "calculate_trend_analysis" =>
          IF Len(trend.doc.periods) < 2
          THEN /\ trend.result.trends = InsufficientTrends
               /\ NoGrowthFigures(trend.result.trends)
          ELSE trend.result.trends.error # InsufficientTrends.error
    /\ trend.tool = "analyze_financial_trends" =>
          IF PeriodCount(trend.doc) < 2
          THEN /\ trend.pc = "raised"
               /\ trend.error # NoError
               /\ trend.result = NoAnalysis
          ELSE /\ trend.pc = "returned"
               /\ trend.error = NoError
               /\ trend.result.trends.error # InsufficientTrends.error

\* The trend tool raised on a list holding one period with a revenue.
C21_Witness ==
    /\ trend.tool = "analyze_financial_trends"
    /\ trend.doc.isList
    /\ Len(trend.doc.periods) = 1
    /\ trend.doc.periods[1]["revenue"] = Num(100)
    /\ trend.pc = "raised"
    /\ trend.error.msg = <<"Insufficient historical data for trend analysis. ",
                           "At least 2 years of data required.">>

\* The series is in the order the tool's sort by year leaves it in.
Chronological(h) ==
    \A i \in 1..(Len(h) - 1) : YearKey(h[i]) <= YearKey(h[i + 1])

\* c (in hundredths) is ((latest / first) ** (1 / k) - 1) * 100 rounded to 2
\* places, for first > 0 and latest >= 0.
IsCagr(c, latest, first, k) ==
    /\ c + 10000 >= 1 => RootReaches(c + 10000, latest, first, k)
    /\ ~RootReaches(c + 10001, latest, first, k)

\* C22 as stated: for a series of at least 2 chronologically ordered periods
\* with numeric revenues, calculate_trend_analysis yields a numeric revenue
\* CAGR, equal to ((latest / first) ^ (1 / (n - 1)) - 1) x 100, whenever the
\* first-period revenue is positive, and a null CAGR whenever it is zero or
\* negative.
C22_CagrIffFirstRevenuePositive ==
    (/\ trend.tool = "calculate_trend_analysis"
     /\ Len(trend.doc.periods) >= 2
     /\ Chronological(trend.doc.periods)
     /\ ~FloatFails(trend.doc.periods, "revenue"))
    => LET revenues == Values(trend.doc.periods, "revenue")
           latest == revenues[Len(revenues)]
           cagr == trend.result.trends.revenue.cagr_pct
       IN  /\ revenues[1] > 0 =>
                 /\ ~cagr.null
                 /\ latest >= 0 => IsCagr(cagr.x, latest, revenues[1], Len(revenues) - 1)
           /\ revenues[1] <= 0 => cagr.null

TrendMetrics == {"revenue", "net_income", "total_assets"}
Previous(values) == values[Len(values) - 1]
Latest(values) == values[Len(values)]

\* The entry m holds the growth of values over the base, rounded to 2
\* places, and the label that goes with its sign.
HoldsGrowth(m, values, base) ==
    /\ m.values = values
    /\ m.yoy_growth_pct = RoundPct(Latest(values) - Previous(values), base)
    /\ m.trend \in {"increasing", "decreasing"}
    /\ m.trend = "increasing" <=> Latest(values) > Previous(values)

Analysed ==
    /\ trend.tool = "calculate_trend_analysis"
    /\ Len(trend.doc.periods) >= 2
    /\ Chronological(trend.doc.periods)

\* C23: for each of revenue, net_income and total_assets whose values are
\* numeric, independently of the other two, the year-over-year growth is
\* computed when the previous-period base allows it (revenue and
\* total_assets: a positive base; net_income: a base other than zero, the
\* absolute value dividing) and is null otherwise; a computed growth is
\* (latest - previous) / base x 100 rounded to 2 places, labelled
\* "increasing" iff it is strictly positive and "decreasing" otherwise.  It
\* fails: a null revenue leaves net_income and total_assets without growth.
C23_GrowthOfEachMetricIndependently ==
    Analysed =>
        \A f \in TrendMetrics :
            LET values == Values(trend.doc.periods, f)
                m == trend.result.trends[f]
            IN  ~FloatFails(trend.doc.periods, f) =>
                    /\ m.present <=>
                          IF f = "net_income" THEN Previous(values) # 0
                          ELSE Previous(values) > 0
                    /\ m.present => HoldsGrowth(m, values, Abs(Previous(values)))

\* ---- tools: envelope or ToolError

EnvelopeKeys == {"status", "message", "data", "timestamp"}

IsEnvelope(envelope) ==
    /\ DOMAIN envelope = EnvelopeKeys
    /\ envelope.status = "success"
    /\ envelope.message # <<>>

RaisedToolError ==
    /\ tool.raised.type = "ToolError"
    /\ tool.raised.error.msg # <<>>
    /\ tool.envelope = NoEnvelope

\* The upstream answers the failure of the tool goes back to: those of the
\* request of a tool of one request, of the financial fetch of a tool that
\* gathers (the profile is not asked for before the financial data are
\* there), of the search.
DecisiveAnswers ==
    IF tool.name \in FetchTools THEN call[1].observed
    ELSE IF tool.name \in GatherTools THEN call[2].observed
    ELSE IF tool.pc = "raised" /\ tool.answer.code # 0 THEN <<tool.answer>>
    ELSE <<>>

\* The failure is HTTP-derived: the last answer was a status other than 200.
EndedOnErrorStatus ==
    /\ DecisiveAnswers # <<>>
    /\ Last(DecisiveAnswers).kind = "status"
    /\ Last(DecisiveAnswers).code # 200

\* The texts that say that the upstream holds no data.
NoDataTexts ==
    {"No financial data found for tax ID: ", "No company data found for tax ID: ",
     "Financial data not available", "Financial data not available for this company",
     "Financial data not available for credit assessment"}

\* The error carries the status code, or names the condition the status
\* stands for: the rejected key of a 401, the missing data of a 404.
NamesStatus(e, code) ==
    \/ e.code = code
    \/ /\ code = 401
       /\ \E i \in 1..Len(e.msg) : e.msg[i] = "Authentication failed - Invalid API key"
    \/ code = 404 /\ e.msg[1] \in NoDataTexts

\* C24: every tool ends by returning the envelope {status, message, data,
\* timestamp} with status "success" or by raising ToolError with a message,
\* never with another exception type; the error of an HTTP-derived failure
\* carries the status code (or, as the specification allows, names the
\* condition it stands for).  It fails: a budget used up by 429 answers ends
\* in "No financial data found for tax ID: ...", and a 401 or 500 of the
\* financial endpoint under a tool that gathers in "Financial data not
\* available".
C24_EnvelopeOrToolErrorWithStatus ==
    /\ tool.pc = "returned" => IsEnvelope(tool.envelope) /\ tool.raised = NoException
    /\ tool.pc = "raised" =>
          /\ RaisedToolError
          /\ EndedOnErrorStatus =>
                NamesStatus(tool.raised.error, Last(DecisiveAnswers).code)
    /\ cmp.pc = "returned" => IsEnvelope(CompareEnvelope)
    /\ cmp.pc = "raised" => cmp.error.msg # <<>>

\* ---- request executor: the budget

\* C25: whatever the upstream answers and for every max_retries >= 0, a call
\* of make_request_with_retry has sent at most max_retries requests, one per
\* attempt of the loop (the attempt with index k is the (k+1)-th request),
\* and once started it ends, by returning or by raising, with every request
\* it sent answered.
C25_AtMostMaxRetriesRequestsThenEnds ==
    /\ [](\A r \in RetryTasks :
            LET c == call[r] IN
            /\ c.sent <= c.max_retries
            /\ c.pc = "waiting" => c.sent = c.attempt + 1 /\ Len(c.observed) = c.attempt
            /\ c.pc = "sleeping" => c.sent = c.attempt + 1 /\ Len(c.observed) = c.sent
            /\ Ended(c) => Len(c.observed) = c.sent)
    /\ \A r \in RetryTasks : (call[r].pc # "idle") ~> Ended(call[r])

\* A call with a budget of 3 ended after 3 requests, each answered 429.
C25_Witness ==
    \E r \in RetryTasks :
        LET c == call[r] IN
        /\ Ended(c)
        /\ c.max_retries = 3
        /\ c.sent = 3
        /\ \A i \in 1..3 : Is429(c.observed[i])

\* C26: every backoff sleep lies between two attempts of the same call: the
\* i-th sleep of a call lasts RETRY_BACKOFF_FACTOR ** (i - 1) seconds, a call
\* that sleeps after the attempt of index k still has attempt k + 1 in its
\* budget, and a call that ended slept fewer times than it sent requests.
C26_EverySleepIsBetweenTwoAttempts ==
    \A r \in RetryTasks :
        LET c == call[r] IN
        /\ \A i \in 1..Len(c.sleeps) :
               c.sleeps[i] = Pow(RETRY_BACKOFF_FACTOR, i - 1)
        /\ c.pc = "sleeping" => c.attempt + 1 < c.max_retries
        /\ Ended(c) /\ c.sent > 0 => Len(c.sleeps) < c.sent

\* ---- metrics engine: liquidity band

LiquidityBand(cr) ==
    IF cr.x >= 200 THEN 25
    ELSE IF cr.x >= 150 THEN 20
    ELSE IF cr.x >= 100 THEN 15
    ELSE IF cr.x >= 50 THEN 10
    ELSE 5

OtherBands(ratios) ==
    HealthMarginPoints(ratios.profitability.net_profit_margin)
    + HealthRoePoints(ratios.profitability.roe)
    + HealthLeveragePoints(ratios.solvency.debt_to_equity)
    + HealthCoveragePoints(ratios.solvency.interest_coverage)
    + HealthTurnoverPoints(ratios.efficiency.asset_turnover)

\* C27: for every record whose current_ratio is not null, the health score
\* returned by calculate_financial_health_score counts 25 points of liquidity
\* for a ratio >= 2.0, 20 for >= 1.5, 15 for >= 1.0, 10 for >= 0.5 and 5 for
\* every other value, the ratio 0 among them.
C27_LiquidityBandOfEveryDefinedRatio ==
    (/\ fin.pc = "returned"
     /\ fin.tool = "calculate_financial_health_score"
     /\ ~fin.result.ratios.liquidity.current_ratio.null)
    => fin.result.health_score =
           FinalScore(LiquidityBand(fin.result.ratios.liquidity.current_ratio)
                          + OtherBands(fin.result.ratios),
                      HealthMaxScore)

\* ---- metrics engine: denominators

Denominator ==
    [current_ratio |-> "current_liabilities",
     quick_ratio |-> "current_liabilities",
     cash_ratio |-> "current_liabilities",
     gross_profit_margin |-> "revenue",
     operating_profit_margin |-> "revenue",
     net_profit_margin |-> "revenue",
     roa |-> "total_assets",
     roe |-> "total_equity",
     debt_to_equity |-> "total_equity",
     debt_to_assets |-> "total_assets",
     equity_ratio |-> "total_assets",
     interest_coverage |-> "interest_expense",
     asset_turnover |-> "total_assets",
     inventory_turnover |-> "inventory",
     receivables_turnover |-> "accounts_receivable"]

AllNumeric(rec) == \A f \in Fields : rec[f].kind = "num"

\* C28: for every record with numeric fields each ratio is non-null whenever
\* its own denominator is positive, whatever the numerator (receivables_turnover
\* for every accounts_receivable > 0, revenue = 0 included), and
\* days_sales_outstanding is non-null only when receivables_turnover is.
C28_PositiveDenominatorGivesARatio ==
    (Computed /\ AllNumeric(fin.record)) =>
        /\ \A fam \in Families :
               \A name \in DOMAIN fin.result.ratios[fam] \ {"days_sales_outstanding"} :
                   fin.record[Denominator[name]].num > 0
                       => ~fin.result.ratios[fam][name].null
        /\ ~fin.result.ratios.efficiency.days_sales_outstanding.null
               => ~fin.result.ratios.efficiency.receivables_turnover.null

\* ---- credit assessment: score, rating, grade

CreditBandMaxima == <<25, 20, 20, 15, 20>>
BandPoints(ratios) ==
    <<CreditLiquidityPoints(ratios.liquidity.current_ratio),
      CreditMarginPoints(ratios.profitability.net_profit_margin),
      CreditLeveragePoints(ratios.solvency.debt_to_equity),
      CreditCoveragePoints(ratios.solvency.interest_coverage),
      CreditRoaPoints(ratios.profitability.roa)>>
RatingOfScore(score) ==
    CASE score >= 90 -> "AAA" [] score \in 80..89 -> "AA" [] score \in 70..79 -> "A"
      [] score \in 60..69 -> "BBB" [] score \in 50..59 -> "BB" [] score \in 40..49 -> "B"
      [] score \in 30..39 -> "CCC" [] score \in 20..29 -> "CC" [] score \in 10..19 -> "C"
      [] OTHER -> "D"
InvestmentRatings == {"AAA", "AA", "A", "BBB"}

\* C29: every assessment returned by assess_credit_risk has an integer
\* credit score in [0,100], the sum of five bands of at most 25, 20, 20, 15
\* and 20 points; its rating is the ten-band step function of the score
\* (AAA >= 90, AA >= 80, A >= 70, BBB >= 60, BB >= 50, B >= 40, CCC >= 30,
\* CC >= 20, C >= 10, D otherwise); and investment_grade is true exactly for
\* the ratings AAA, AA, A and BBB.
C29_ScoreRatingAndGrade ==
    (fin.tool = "assess_credit_risk" /\ fin.pc = "returned") =>
        LET res == fin.result IN
        /\ res.credit_score \in 0..100
        /\ \A i \in 1..Len(CreditBandMaxima) :
               BandPoints(res.ratios)[i] \in 0..CreditBandMaxima[i]
        /\ res.credit_rating = RatingOfScore(res.credit_score)
        /\ res.investment_grade <=> res.credit_rating \in InvestmentRatings

\* A record was assessed just below the grade: a score of 50 to 59, rating
\* BB, not investment grade.
C29_Witness ==
    /\ fin.tool = "assess_credit_risk"
    /\ fin.pc = "returned"
    /\ fin.result.credit_score \in 50..59
    /\ fin.result.credit_rating = "BB"
    /\ ~fin.result.investment_grade

\* ---- session manager: close during a backoff sleep

\* The call r sleeps between two attempts and its handle has been closed.
ClosedWhileSleeping(r) ==
    /\ call[r].pc = "sleeping"
    /\ call[r].attempt + 1 < call[r].max_retries
    /\ call[r].session \in closed

\* C30: when close() has run while a call of make_request_with_retry waits
\* in a backoff sleep, the call's next attempt is a request sent on an open
\* session, and the call is not ended by the close.
C30_NextAttemptOnAnOpenSession ==
    [][\A r \in RetryTasks :
          (ClosedWhileSleeping(r) /\ call'[r] # call[r]) =>
              /\ call'[r].pc = "waiting"
              /\ call'[r].sent = call[r].sent + 1
              /\ call'[r].session \notin closed']_vars

====
